---- MODULE Spec2Model ----
(***************************************************************************)
(* agentwatch-minimal: the live monitoring engine of watch.ts and          *)
(* lib/tmux.ts.  The interactive loop (refreshState, renderDisplay, the    *)
(* frame write), the stdin key handler with its modal sub-states, the      *)
(* viewport scrolling of renderSessions and the process-forest aggregation *)
(* of getProcessStatsBatch are modelled as state machines.                 *)
(***************************************************************************)
EXTENDS Integers, Sequences, FiniteSets, TLC

VARIABLES
  state,        \* the WatchState value (watch.ts 82-117)
  needsRefresh, \* interactiveLoop's needsRefresh flag
  loopPc,       \* where the refresh loop is suspended
  mode,         \* "interactive" | "watch" (--no-interactive) | "once"
  gather,       \* what renderDisplay collected before its Promise.all
  frame,        \* the frame last written: its view and the fields it was torn on
  pending,      \* key handlers suspended in attach / kill / mark-done
  terminal,     \* raw mode and cursor visibility
  tmux,         \* the multiplexer: session id -> "absent" | "live" | "done"
  hasServerCache, \* lib/tmux.ts hasServerCache: "none" | "yes" | "no"; where time
                \* is modelled, the value with its timestamp
  metaFile,     \* sessions.jsonl: session name -> most recent entry
  hooksBuffer,  \* the in-memory hook buffer (ids, oldest first)
  budget,       \* what the environment may still do (keys, changes, hooks)
  hist,         \* history: refreshes in flight, requests raised meanwhile
  scroll,       \* the inputs and result of a renderSessions viewport computation
  ps,           \* a process listing, the requested pids and the result of the call on it
  now,          \* Date.now() in milliseconds
  statsCache,   \* lib/tmux.ts statsCache: the last stats result and its timestamp
  spawned       \* history: the process listings spawned so far, oldest first

vars == <<state, needsRefresh, loopPc, mode, gather, frame, pending,
          terminal, tmux, hasServerCache, metaFile, hooksBuffer, budget,
          hist, scroll, ps, now, statsCache, spawned>>

----------------------------------------------------------------------------
\* Bounds of the model

MaxLoopKeys == 2      \* key events per run of the refresh-loop specification
MaxKeys == 3          \* key events per run of the key-handler specification
MaxTmuxChanges == 1   \* sessions created or ended from outside per run
MaxHookEvents == 1    \* webhook events per run
MaxPending == 1       \* key handlers suspended in a collaborator call
MaxTemplateLen == 3   \* characters in the template edit buffer
MaxScrollKeys == 2    \* offset reached by the detail-view scroll keys
TermRows == 12        \* process.stdout.rows
MaxContentLines == 25 \* content lines of the sessions panel
MaxLineBudget == 12   \* line budget handed to renderSessions
MantissaBits == 3     \* significand width of the modelled floating-point numbers

----------------------------------------------------------------------------
\* Program constants

headerLines == 6
footerLines == 2
FilterOptionCount == 10
RefreshPresets == <<1000, 2000, 5000, 10000>>
DefaultIntervalMs == 2000
SortModes == <<"none", "name", "created", "activity">>
AGENT_COMMANDS == {"claude", "codex", "gemini", "node", "bun"}
DEFAULT_TITLE_TEMPLATE == <<"{dir}", "{event}">>
DEFAULT_MESSAGE_TEMPLATE == <<"{tool}", "{detail}">>

Min(a, b) == IF a < b THEN a ELSE b
Max(a, b) == IF a > b THEN a ELSE b

----------------------------------------------------------------------------
\* The multiplexer's sessions.  A session name is an id plus the "-done"
\* suffix markSessionDone appends; the window/pane tree of an id is fixed.

SessionIds == {"a", "b", "c"}
ListingOrder == <<"a", "b", "c">>
Name(id, done) == [id |-> id, done |-> done]
Names == {Name(id, d) : id \in SessionIds, d \in BOOLEAN}

Pane(idx, pid, cmd, out, det) ==
  [paneIndex |-> idx, panePid |-> pid, command |-> cmd, output |-> out, detects |-> det]
Window(idx, panes) == [index |-> idx, panes |-> panes]

\* windowList of each session: a runs claude in one pane; b has a shell pane
\* and a node pane wrapping codex; c is a plain shell.
WindowList(id) ==
  CASE id = "a" -> << Window(0, << Pane(0, 10, "claude", TRUE, "claude") >>) >>
    [] id = "b" -> << Window(0, << Pane(0, 20, "bash", TRUE, "none"),
                                   Pane(1, 21, "node", FALSE, "codex") >>) >>
    [] OTHER    -> << Window(0, << Pane(0, 30, "zsh", TRUE, "none") >>) >>

Created(id) == CASE id = "a" -> 100 [] id = "b" -> 300 [] OTHER -> 200
Activity(id) == CASE id = "a" -> 500 [] id = "b" -> 400 [] OTHER -> 600
IdRank(id) == CASE id = "a" -> 0 [] id = "b" -> 1 [] OTHER -> 2
NameRank(n) == 2 * IdRank(n.id) + (IF n.done THEN 1 ELSE 0)

NoMeta == [agent |-> "none", status |-> "none", preview |-> FALSE]
LaunchMeta == [agent |-> "claude", status |-> "running", preview |-> TRUE]
\* sessions.jsonl at start-up: session a was started by launch.ts
InitMetaFile == [n \in Names |-> IF n = Name("a", FALSE) THEN LaunchMeta ELSE NoMeta]

isAgentCommand(cmd) == cmd \in AGENT_COMMANDS

\* watch.ts getFilteredWindows
getFilteredWindows(session, agentsOnly) ==
  IF ~agentsOnly THEN WindowList(session.id)
  ELSE LET narrowed == [i \in DOMAIN WindowList(session.id) |->
                          [WindowList(session.id)[i] EXCEPT
                             !.panes = SelectSeq(@, LAMBDA p : isAgentCommand(p.command))]]
       IN SelectSeq(narrowed, LAMBDA w : Len(w.panes) > 0)

\* watch.ts getVisibleSessions
getVisibleSessions(sessions, agentsOnly) ==
  IF ~agentsOnly THEN sessions
  ELSE SelectSeq(sessions, LAMBDA s : Len(getFilteredWindows(s, TRUE)) > 0)

\* the comparator of each sort mode: negative when x sorts before y
Compare(x, y, sortBy) ==
  CASE sortBy = "name"     -> NameRank(x) - NameRank(y)
    [] sortBy = "created"  -> Created(y.id) - Created(x.id)
    [] sortBy = "activity" -> Activity(y.id) - Activity(x.id)
    [] OTHER               -> 0

RECURSIVE SortInsert(_, _, _)
SortInsert(x, s, sortBy) ==
  IF s = <<>> THEN <<x>>
  ELSE IF Compare(x, Head(s), sortBy) < 0 THEN <<x>> \o s
  ELSE <<Head(s)>> \o SortInsert(x, Tail(s), sortBy)

RECURSIVE StableSort(_, _)
StableSort(s, sortBy) ==
  IF s = <<>> THEN <<>>
  ELSE SortInsert(s[Len(s)], StableSort(SubSeq(s, 1, Len(s) - 1), sortBy), sortBy)

\* watch.ts sortSessions
sortSessions(sessions, sortBy) ==
  IF sortBy = "none" THEN sessions ELSE StableSort(sessions, sortBy)

\* what tmux list-sessions reports, in listing order
TmuxList(t) ==
  LET live == SelectSeq(ListingOrder, LAMBDA id : t[id] # "absent")
  IN [i \in DOMAIN live |-> Name(live[i], t[live[i]] = "done")]

----------------------------------------------------------------------------
\* Rendering: what renderDisplay gathers and what renderSessions lays out

RECURSIVE FlattenWindows(_)
FlattenWindows(ws) ==
  IF ws = <<>> THEN <<>>
  ELSE [i \in 1..Len(Head(ws).panes) |->
          [windowIndex |-> Head(ws).index, pane |-> Head(ws).panes[i]]]
       \o FlattenWindows(Tail(ws))

FlatPanes(session, agentsOnly) == FlattenWindows(getFilteredWindows(session, agentsOnly))
SeqRange(s) == {s[i] : i \in DOMAIN s}
Target(session, fp) ==
  [session |-> session, windowIndex |-> fp.windowIndex, paneIndex |-> fp.pane.paneIndex]

RECURSIVE SumSeq(_)
SumSeq(s) == IF s = <<>> THEN 0 ELSE Head(s) + SumSeq(Tail(s))

\* the ViewState values both halves of a frame read
ViewSnapshot(st) ==
  [selectedIndex |-> st.selectedIndex, expandAll |-> st.expandAll,
   agentsOnly |-> st.agentsOnly, showStats |-> st.showStats,
   showLastLine |-> st.showLastLine, visibleSessions |-> st.visibleSessions]

ViewFields ==
  {"selectedIndex", "expandAll", "agentsOnly", "showStats", "showLastLine",
   "visibleSessions"}
\* the fields on which what was gathered and what is laid out disagree
TornFields(gathered, laid) == {f \in ViewFields : gathered[f] # laid[f]}

IsExpanded(st, i) == st.expandAll \/ i - 1 = st.selectedIndex

\* renderDisplay 894-895 and 968-1001: the destructured toggles and the pane
\* data collected for the sessions that are expanded at this moment
CollectPaneData(st) ==
  LET sessions == st.visibleSessions
      expanded == {i \in DOMAIN sessions : IsExpanded(st, i)}
      needing  == {i \in DOMAIN sessions :
                     /\ st.sessionMeta[sessions[i]].agent = "none"
                     /\ st.agentCache[sessions[i]] = "none"}
      panesOf(i) == SeqRange(FlatPanes(sessions[i], st.agentsOnly))
  IN [view |-> ViewSnapshot(st),
      showHooks |-> st.showHooks,
      paneTargets |-> IF st.showLastLine
                      THEN UNION {{Target(sessions[i], fp) : fp \in panesOf(i)} : i \in expanded}
                      ELSE {},
      panePids |-> IF st.showStats
                   THEN UNION {{fp.pane.panePid : fp \in panesOf(i)} : i \in expanded}
                   ELSE {},
      pidsNeedingDetection |-> UNION {{fp.pane.panePid : fp \in panesOf(i)} : i \in needing}]

EmptyView ==
  [selectedIndex |-> 0, expandAll |-> FALSE, agentsOnly |-> FALSE, showStats |-> FALSE,
   showLastLine |-> FALSE, visibleSessions |-> <<>>]
NoGather ==
  [view |-> EmptyView, showHooks |-> FALSE, paneTargets |-> {}, panePids |-> {},
   pidsNeedingDetection |-> {}]

\* every pane of every session id, with its session id
AllPanes ==
  UNION {{[id |-> id, pane |-> fp.pane, windowIndex |-> fp.windowIndex] :
            fp \in SeqRange(FlattenWindows(WindowList(id)))} : id \in SessionIds}

IsLive(t, n) == t[n.id] = (IF n.done THEN "done" ELSE "live")

\* lib/tmux.ts capturePanes: the targets whose pane has a meaningful last line
capturePanes(targets, t) ==
  {tg \in targets :
     /\ IsLive(t, tg.session)
     /\ \E ap \in AllPanes : /\ ap.id = tg.session.id
                             /\ ap.windowIndex = tg.windowIndex
                             /\ ap.pane.paneIndex = tg.paneIndex
                             /\ ap.pane.output}

\* lib/tmux.ts detectAgentsBatch, as seen by the watcher: pane pid -> agent
DetectedPids(pids, t) ==
  {pid \in pids : \E ap \in AllPanes : /\ ap.pane.panePid = pid
                                        /\ ap.pane.detects # "none"
                                        /\ t[ap.id] # "absent"}
AgentOfPid(pid) == (CHOOSE ap \in AllPanes : ap.pane.panePid = pid).pane.detects

\* a resolution that consults the memo cache before the metadata
getSessionAgentMemoFirst(session, meta, detected, agentCache, agentsOnly) ==
  IF agentCache[session] # "none"
  THEN [agent |-> agentCache[session], cache |-> agentCache]
  ELSE [agent |-> meta.agent, cache |-> agentCache]

\* a resolution that forgets the memoized agent when the scan finds nothing
getSessionAgentForgets(session, meta, detected, agentCache, agentsOnly) ==
  LET hits == SelectSeq(FlatPanes(session, agentsOnly),
                        LAMBDA fp : fp.pane.panePid \in detected)
  IN IF meta.agent # "none" THEN [agent |-> meta.agent, cache |-> agentCache]
     ELSE IF hits = <<>>
     THEN [agent |-> "none", cache |-> [agentCache EXCEPT ![session] = "none"]]
     ELSE [agent |-> AgentOfPid(Head(hits).pane.panePid),
           cache |-> [agentCache EXCEPT ![session] = AgentOfPid(Head(hits).pane.panePid)]]

\* watch.ts getSessionAgent: the agent and the memo cache it leaves
getSessionAgent(session, meta, detected, agentCache, agentsOnly) ==
  IF meta.agent # "none" THEN [agent |-> meta.agent, cache |-> agentCache]
  ELSE IF agentCache[session] # "none"
  THEN [agent |-> agentCache[session], cache |-> agentCache]
  ELSE LET hits == SelectSeq(FlatPanes(session, agentsOnly),
                             LAMBDA fp : fp.pane.panePid \in detected)
       IN IF hits = <<>> THEN [agent |-> "none", cache |-> agentCache]
          ELSE [agent |-> AgentOfPid(Head(hits).pane.panePid),
                cache |-> [agentCache EXCEPT ![session] = AgentOfPid(Head(hits).pane.panePid)]]

\* watch.ts formatSessionMeta: whether a meta line is shown
HasMetaLine(meta) == meta.status # "none" \/ meta.preview

\* renderSessions 712-760: the lines one session contributes
SessionLineCount(session, expanded, st, captured) ==
  IF ~expanded THEN 1
  ELSE LET ws == getFilteredWindows(session, st.agentsOnly)
           paneLines(w, p) ==
             1 + (IF st.showLastLine
                     /\ [session |-> session, windowIndex |-> w.index,
                         paneIndex |-> p.paneIndex] \in captured
                  THEN 1 ELSE 0)
           windowLines(w) ==
             (IF Len(ws) > 1 \/ Len(w.panes) > 1 THEN 1 ELSE 0)
             + SumSeq([j \in DOMAIN w.panes |-> paneLines(w, w.panes[j])])
       IN 1 + (IF HasMetaLine(st.sessionMeta[session]) THEN 1 ELSE 0)
            + SumSeq([k \in DOMAIN ws |-> windowLines(ws[k])])

\* a viewport that skips the final clamp of the offset
ScrollOffsetUnclamped(scrollOffset, selectedLineIndex, contentCount, maxLines) ==
  IF contentCount <= maxLines THEN 0
  ELSE LET effectiveMaxLines == Max(1, maxLines - 2)
       IN IF selectedLineIndex < scrollOffset THEN selectedLineIndex
          ELSE IF selectedLineIndex >= scrollOffset + effectiveMaxLines
          THEN selectedLineIndex - effectiveMaxLines + 1
          ELSE scrollOffset

\* a viewport that always puts the selected line on top
ScrollOffsetSelectionOnTop(scrollOffset, selectedLineIndex, contentCount, maxLines) ==
  IF contentCount <= maxLines THEN 0
  ELSE Min(selectedLineIndex, contentCount - Max(1, maxLines - 2))

\* renderSessions 763-784: the scroll offset stored after a render
ScrollOffsetAfter(scrollOffset, selectedLineIndex, contentCount, maxLines) ==
  IF contentCount <= maxLines THEN 0
  ELSE LET effectiveMaxLines == Max(1, maxLines - 2)
           moved == IF selectedLineIndex = -1 THEN scrollOffset
                    ELSE IF selectedLineIndex < scrollOffset THEN selectedLineIndex
                    ELSE IF selectedLineIndex >= scrollOffset + effectiveMaxLines
                    THEN selectedLineIndex - effectiveMaxLines + 1
                    ELSE scrollOffset
           maxOffset == Max(0, contentCount - effectiveMaxLines)
       IN Max(0, Min(moved, maxOffset))

\* renderDisplay 921-926
maxSessionLines(showHooks) ==
  LET availableLines == TermRows - headerLines - footerLines
  IN IF showHooks THEN (availableLines * 7) \div 10 ELSE availableLines

RECURSIVE CacheAfter(_, _, _, _)
\* the memo cache after getSessionAgent has run for sessions i..Len
CacheAfter(st, detected, i, cache) ==
  IF i > Len(st.visibleSessions) THEN cache
  ELSE LET s == st.visibleSessions[i]
       IN CacheAfter(st, detected, i + 1,
            getSessionAgent(s, st.sessionMeta[s], detected, cache, st.agentsOnly).cache)

NoScroll ==
  [rendered |-> FALSE, prev |-> 0, selectedLineIndex |-> 0, contentCount |-> 0,
   maxLines |-> 0, offset |-> 0]

\* renderSessions 655-799: the ViewState it leaves
renderSessions(st, captured, detected, maxLines) ==
  LET sessions == st.visibleSessions
      counts == [i \in DOMAIN sessions |->
                   SessionLineCount(sessions[i], IsExpanded(st, i), st, captured)]
      contentCount == SumSeq(counts)
      selectedLineIndex ==
        IF st.selectedIndex + 1 \in DOMAIN sessions
        THEN SumSeq(SubSeq(counts, 1, st.selectedIndex)) ELSE -1
      offset == ScrollOffsetAfter(st.scrollOffset, selectedLineIndex, contentCount, maxLines)
  IN IF sessions = <<>> THEN [st |-> st]
     ELSE [st |-> [st EXCEPT !.scrollOffset = offset,
                             !.agentCache = CacheAfter(st, detected, 1, st.agentCache)]]

----------------------------------------------------------------------------
\* Start-up (watch.ts main 1695-1735) and the refresh loop

\* main 1684-1735: the WatchState built from the command-line flags
InitState(fl) ==
  [intervalMs |-> DefaultIntervalMs,
   showLastLine |-> TRUE, showStats |-> TRUE,
   showHelp |-> FALSE, showDetailedHelp |-> FALSE, detailedHelpScrollOffset |-> 0,
   showFilterPopup |-> FALSE, filterPopupIndex |-> 0, filterPopupSelected |-> {},
   showTemplateEditor |-> FALSE, templateEditorField |-> "title",
   templateEditorValue |-> <<>>, templateEditorCursor |-> 0,
   showHooks |-> fl.hooks, showHookDetail |-> FALSE,
   agentsOnly |-> ~fl.all, expandAll |-> ~fl.noExpand, sortBy |-> "none",
   focusPanel |-> "sessions", selectedIndex |-> 0, scrollOffset |-> 0,
   selectedHookIndex |-> 0, hookScrollOffset |-> 0,
   sessions |-> <<>>, visibleSessions |-> <<>>,
   sessionMeta |-> [n \in Names |-> NoMeta],
   agentCache |-> [n \in Names |-> "none"],
   hooksEnabled |-> fl.hooks,
   notifyDesktop |-> fl.notifyDesktop, notifyFilter |-> {},
   titleTemplate |-> <<>>, messageTemplate |-> <<>>]

NoFrame == [kind |-> "none", torn |-> {}]
InitPs == [table |-> <<>>, requested |-> {}, result |-> <<>>, called |-> FALSE]

\* lib/tmux.ts 421: let statsCache = null; no process listing spawned yet
NoStatsCache == [valid |-> FALSE]
NoProcessCalls == now = 0 /\ statsCache = NoStatsCache /\ spawned = <<>>

\* main 1695-1741 hands the state to interactiveLoop or nonInteractiveLoop,
\* whose first iteration refreshes at once
Start(modes, flags, keys) ==
  /\ mode \in modes
  /\ \E fl \in flags : state = InitState(fl)
  /\ budget = [keys |-> keys, tmux |-> MaxTmuxChanges, hooks |-> MaxHookEvents]
  /\ needsRefresh = TRUE
  /\ loopPc = "list"
  /\ gather = NoGather
  /\ frame = NoFrame
  /\ pending = {}
  /\ terminal = [raw |-> mode = "interactive", cursorHidden |-> TRUE]
  /\ tmux = [id \in SessionIds |-> "live"]
  /\ hasServerCache = "none"
  /\ metaFile = InitMetaFile
  /\ hooksBuffer = <<>>
  /\ hist = [inflight |-> 1, raised |-> FALSE]

\* started with --no-hooks
NoHooksFlags == [hooks |-> FALSE, notifyDesktop |-> FALSE, all |-> FALSE, noExpand |-> FALSE]

Init ==
  /\ Start({"interactive", "watch", "once"}, {NoHooksFlags}, MaxLoopKeys)
  /\ scroll = NoScroll
  /\ ps = InitPs
  /\ NoProcessCalls

Running == loopPc \notin {"exited", "done"}

\* a loop whose iterations could start while one is still suspended
LoopReentered == Running

\* interactiveLoop 1538-1541 and nonInteractiveLoop 1568-1577: the loop is
\* ready for its next iteration only once the previous one reached its sleep
LoopReady == loopPc = "sleep"

\* a refresh starts: refreshState calls listSessions
StartRefresh ==
  /\ loopPc' = "list"
  /\ hist' = [hist EXCEPT !.inflight = @ + 1, !.raised = FALSE]
  /\ UNCHANGED <<state, needsRefresh, mode, gather, frame, pending, terminal,
                 tmux, hasServerCache, metaFile, hooksBuffer, budget, scroll, ps, now, statsCache, spawned>>

\* interactiveLoop 1541, first disjunct: a refresh was requested
LoopOnRequest ==
  /\ LoopReady
  /\ mode = "interactive"
  /\ needsRefresh
  /\ StartRefresh

\* interactiveLoop 1541, second disjunct (now - lastRefresh >= intervalMs),
\* and nonInteractiveLoop 1577 (its sleep of intervalMs is over)
LoopOnInterval ==
  /\ LoopReady
  /\ StartRefresh

\* lib/tmux.ts tmuxHasServer 23-42 and listSessions 44-57, then
\* refreshState 1227-1229
ListResolve ==
  /\ loopPc = "list"
  /\ \E expired \in BOOLEAN :
     LET probe == hasServerCache = "none" \/ expired
         hasServer == IF probe THEN \E id \in SessionIds : tmux[id] # "absent"
                      ELSE hasServerCache = "yes"
         sorted == sortSessions(IF hasServer THEN TmuxList(tmux) ELSE <<>>, state.sortBy)
     IN /\ hasServerCache' = IF probe THEN (IF hasServer THEN "yes" ELSE "no")
                             ELSE hasServerCache
        /\ state' = [state EXCEPT !.sessions = sorted,
                                  !.visibleSessions = getVisibleSessions(sorted, state.agentsOnly)]
  /\ loopPc' = "meta"
  /\ UNCHANGED <<needsRefresh, mode, gather, frame, pending, terminal, tmux,
                 metaFile, hooksBuffer, budget, hist, scroll, ps, now, statsCache, spawned>>

\* renderDisplay 897-915: the modal view drawn instead of the panels
ModalKind(st) ==
  CASE st.showDetailedHelp   -> "detailedHelp"
    [] st.showHelp           -> "help"
    [] st.showFilterPopup    -> "filter"
    [] st.showTemplateEditor -> "template"
    [] st.showHookDetail     -> "hookDetail"
    [] OTHER                 -> "none"

\* refreshState 1234-1238
ClampSelection(st) ==
  IF Len(st.visibleSessions) > 0
  THEN Min(st.selectedIndex, Len(st.visibleSessions) - 1)
  ELSE 0

\* interactiveLoop 1546-1550 / nonInteractiveLoop 1573-1580: the frame is
\* written and the loop goes to sleep (or ends, with --once)
WriteFrame(st, fr) ==
  /\ state' = st
  /\ frame' = fr
  /\ gather' = NoGather
  /\ needsRefresh' = FALSE
  /\ loopPc' = IF mode = "once" THEN "done" ELSE "sleep"
  /\ terminal' = IF mode = "once" THEN [terminal EXCEPT !.cursorHidden = FALSE] ELSE terminal
  /\ hist' = [hist EXCEPT !.inflight = @ - 1]

\* refreshState 1231-1238 once readSessionMeta has answered, then the
\* synchronous head of renderDisplay (893-1007)
MetaResolve ==
  /\ loopPc = "meta"
  /\ \E readOk \in BOOLEAN, statsCached \in BOOLEAN :
       LET st0 == [state EXCEPT !.sessionMeta = IF readOk THEN metaFile
                                                ELSE [n \in Names |-> NoMeta]]
           st1 == [st0 EXCEPT !.selectedIndex = ClampSelection(st0)]
           g   == CollectPaneData(st1)
           suspends == \/ g.paneTargets # {}
                       \/ g.panePids # {} /\ ~statsCached
                       \/ g.pidsNeedingDetection # {}
       IN IF ModalKind(st1) # "none"
          THEN WriteFrame(st1, [kind |-> ModalKind(st1), torn |-> {}])
          ELSE IF suspends
          THEN /\ state' = st1
               /\ gather' = g
               /\ loopPc' = "gather"
               /\ UNCHANGED <<needsRefresh, frame, terminal, hist>>
          ELSE LET r == renderSessions(st1, {}, {}, maxSessionLines(g.showHooks))
               IN WriteFrame(r.st, [kind |-> "panels",
                                    torn |-> TornFields(g.view, ViewSnapshot(st1))])
  /\ UNCHANGED <<mode, pending, tmux, hasServerCache, metaFile, hooksBuffer, budget,
                 scroll, ps, now, statsCache, spawned>>

\* renderDisplay 1003-1021 once Promise.all has answered: renderSessions
\* reads the ViewState as it is now
GatherResolve ==
  /\ loopPc = "gather"
  /\ LET captured == capturePanes(gather.paneTargets, tmux)
         detected == DetectedPids(gather.pidsNeedingDetection, tmux)
         r == renderSessions(state, captured, detected, maxSessionLines(gather.showHooks))
     IN WriteFrame(r.st, [kind |-> "panels",
                          torn |-> TornFields(gather.view, ViewSnapshot(state))])
  /\ UNCHANGED <<mode, pending, tmux, hasServerCache, metaFile, hooksBuffer, budget,
                 scroll, ps, now, statsCache, spawned>>

----------------------------------------------------------------------------
\* The environment

\* a session is created or ends outside the watcher
TmuxChange ==
  /\ Running
  /\ budget.tmux > 0
  /\ \E id \in SessionIds, to \in {"absent", "live"} :
       /\ tmux[id] # to
       /\ tmux' = [tmux EXCEPT ![id] = to]
  /\ budget' = [budget EXCEPT !.tmux = @ - 1]
  /\ UNCHANGED <<state, needsRefresh, loopPc, mode, gather, frame, pending,
                 terminal, hasServerCache, metaFile, hooksBuffer, hist, scroll, ps, now, statsCache, spawned>>

----------------------------------------------------------------------------
\* The stdin "data" handler of interactiveLoop (watch.ts 1256-1536).  Each
\* section answers with the ViewState it leaves, whether it set needsRefresh
\* and the collaborator call it started.

Keys ==
  {"esc", "up", "down", "k", "j", "space", "enter", "q", "tab", "ctrlR",
   "backspace", "left", "right", "d", "?", "l", "s", "h", "f", "e", "r", "a",
   "x", "D", "S", "R", "N", "F", "T", "ctrlC", "z"}

IsUp(key) == key \in {"up", "k"}
IsDown(key) == key \in {"down", "j"}
IsEnter(key) == key = "enter"
\* code >= 32 && code < 127
IsPrintable(key) ==
  key \in {"k", "j", "space", "q", "d", "?", "l", "s", "h", "f", "e", "r", "a",
           "x", "D", "S", "R", "N", "F", "T", "z"}

Handled(st, refresh, effect) == [st |-> st, refresh |-> refresh, effect |-> effect]

AnyModal(st) ==
  \/ st.showHelp \/ st.showDetailedHelp \/ st.showFilterPopup
  \/ st.showTemplateEditor \/ st.showHookDetail

\* an Escape that pops detailed help back to the help overlay
EscapeKeyPopsToHelp(st) ==
  IF st.showDetailedHelp
  THEN Handled([st EXCEPT !.showDetailedHelp = FALSE, !.showHelp = TRUE], TRUE, "none")
  ELSE Handled([st EXCEPT !.showTemplateEditor = FALSE, !.showFilterPopup = FALSE,
                          !.showHookDetail = FALSE, !.showHelp = FALSE], TRUE, "none")

\* 1261-1289: Escape closes the first open modal in this order
EscapeKey(st) ==
  IF st.showTemplateEditor THEN Handled([st EXCEPT !.showTemplateEditor = FALSE], TRUE, "none")
  ELSE IF st.showFilterPopup THEN Handled([st EXCEPT !.showFilterPopup = FALSE], TRUE, "none")
  ELSE IF st.showDetailedHelp
  THEN Handled([st EXCEPT !.showDetailedHelp = FALSE, !.detailedHelpScrollOffset = 0],
               TRUE, "none")
  ELSE IF st.showHookDetail THEN Handled([st EXCEPT !.showHookDetail = FALSE], TRUE, "none")
  ELSE Handled([st EXCEPT !.showHelp = FALSE], TRUE, "none")

\* 1291-1321
FilterPopupKey(st, key) ==
  IF IsUp(key)
  THEN Handled([st EXCEPT !.filterPopupIndex = Max(0, @ - 1)], TRUE, "none")
  ELSE IF IsDown(key)
  THEN Handled([st EXCEPT !.filterPopupIndex = Min(FilterOptionCount - 1, @ + 1)],
               TRUE, "none")
  ELSE IF key = "space"
  THEN Handled([st EXCEPT !.filterPopupSelected =
                  IF st.filterPopupIndex \in @ THEN @ \ {st.filterPopupIndex}
                  ELSE @ \cup {st.filterPopupIndex}], TRUE, "none")
  ELSE IF IsEnter(key)
  THEN Handled([st EXCEPT !.notifyFilter =
                  IF Cardinality(st.filterPopupSelected) \in {0, FilterOptionCount}
                  THEN {} ELSE st.filterPopupSelected,
                !.showFilterPopup = FALSE], TRUE, "none")
  ELSE IF key = "q" THEN Handled([st EXCEPT !.showFilterPopup = FALSE], TRUE, "none")
  ELSE Handled(st, FALSE, "none")

OrDefault(template, default) == IF template = <<>> THEN default ELSE template
KeyChar(key) == IF key = "space" THEN " " ELSE key

\* 1323-1383
TemplateEditorKey(st, key) ==
  LET value == st.templateEditorValue
      cursor == st.templateEditorCursor
  IN IF key = "tab"
     THEN IF st.templateEditorField = "title"
          THEN LET next == OrDefault(st.messageTemplate, DEFAULT_MESSAGE_TEMPLATE)
               IN Handled([st EXCEPT !.titleTemplate = value,
                                     !.templateEditorField = "message",
                                     !.templateEditorValue = next,
                                     !.templateEditorCursor = Len(next)], TRUE, "none")
          ELSE LET next == OrDefault(st.titleTemplate, DEFAULT_TITLE_TEMPLATE)
               IN Handled([st EXCEPT !.messageTemplate = value,
                                     !.templateEditorField = "title",
                                     !.templateEditorValue = next,
                                     !.templateEditorCursor = Len(next)], TRUE, "none")
     ELSE IF IsEnter(key)
     THEN IF st.templateEditorField = "title"
          THEN Handled([st EXCEPT !.titleTemplate = value, !.showTemplateEditor = FALSE],
                       TRUE, "none")
          ELSE Handled([st EXCEPT !.messageTemplate = value, !.showTemplateEditor = FALSE],
                       TRUE, "none")
     ELSE IF key = "ctrlR"
     THEN LET def == IF st.templateEditorField = "title" THEN DEFAULT_TITLE_TEMPLATE
                     ELSE DEFAULT_MESSAGE_TEMPLATE
          IN Handled([st EXCEPT !.titleTemplate = <<>>, !.messageTemplate = <<>>,
                                !.templateEditorValue = def,
                                !.templateEditorCursor = Len(def)], TRUE, "none")
     ELSE IF key = "backspace"
     THEN IF cursor > 0
          THEN Handled([st EXCEPT !.templateEditorValue =
                                    SubSeq(value, 1, cursor - 1)
                                    \o SubSeq(value, cursor + 1, Len(value)),
                                  !.templateEditorCursor = cursor - 1], TRUE, "none")
          ELSE Handled(st, FALSE, "none")
     ELSE IF key = "left"
     THEN IF cursor > 0
          THEN Handled([st EXCEPT !.templateEditorCursor = cursor - 1], TRUE, "none")
          ELSE Handled(st, FALSE, "none")
     ELSE IF key = "right"
     THEN IF cursor < Len(value)
          THEN Handled([st EXCEPT !.templateEditorCursor = cursor + 1], TRUE, "none")
          ELSE Handled(st, FALSE, "none")
     ELSE IF key = "q" THEN Handled([st EXCEPT !.showTemplateEditor = FALSE], TRUE, "none")
     ELSE IF IsPrintable(key)
     THEN Handled([st EXCEPT !.templateEditorValue =
                               SubSeq(value, 1, cursor) \o <<KeyChar(key)>>
                               \o SubSeq(value, cursor + 1, Len(value)),
                             !.templateEditorCursor = cursor + 1], TRUE, "none")
     ELSE Handled(st, FALSE, "none")

\* 1385-1399
DetailedHelpKey(st, key) ==
  IF key = "q"
  THEN Handled([st EXCEPT !.showDetailedHelp = FALSE, !.detailedHelpScrollOffset = 0],
               TRUE, "none")
  ELSE IF IsUp(key)
  THEN Handled([st EXCEPT !.detailedHelpScrollOffset = Max(0, @ - 1)], TRUE, "none")
  ELSE IF IsDown(key)
  THEN Handled([st EXCEPT !.detailedHelpScrollOffset = @ + 1], TRUE, "none")
  ELSE Handled(st, FALSE, "none")

\* a help overlay that stays open underneath detailed help
HelpKeyKeepsHelp(st, key) ==
  IF key = "d"
  THEN Handled([st EXCEPT !.showDetailedHelp = TRUE, !.detailedHelpScrollOffset = 0],
               TRUE, "none")
  ELSE Handled([st EXCEPT !.showHelp = FALSE], TRUE, "none")

\* 1401-1412
HelpKey(st, key) ==
  IF key = "d"
  THEN Handled([st EXCEPT !.showHelp = FALSE, !.showDetailedHelp = TRUE,
                          !.detailedHelpScrollOffset = 0], TRUE, "none")
  ELSE Handled([st EXCEPT !.showHelp = FALSE], TRUE, "none")

\* 1414-1427
HookDetailKey(st, key) ==
  IF key = "q" THEN Handled([st EXCEPT !.showHookDetail = FALSE], TRUE, "none")
  ELSE IF IsUp(key)
  THEN Handled([st EXCEPT !.hookScrollOffset = Max(0, @ - 1)], TRUE, "none")
  ELSE IF IsDown(key)
  THEN Handled([st EXCEPT !.hookScrollOffset = @ + 1], TRUE, "none")
  ELSE Handled(st, FALSE, "none")

IndexOf(seq, x) == IF \E i \in DOMAIN seq : seq[i] = x
                   THEN (CHOOSE i \in DOMAIN seq : seq[i] = x) - 1 ELSE -1
\* a cycle that leaves a value outside the list where it is
CycleNextKeepsUnknown(seq, x) ==
  IF IndexOf(seq, x) = -1 THEN x ELSE seq[((IndexOf(seq, x) + 1) % Len(seq)) + 1]

\* modes[(idx + 1) % modes.length]
CycleNext(seq, x) == seq[((IndexOf(seq, x) + 1) % Len(seq)) + 1]

\* state.visibleSessions[state.selectedIndex] is defined
SelectedSession(st) == st.selectedIndex + 1 \in DOMAIN st.visibleSessions

\* 1436-1535: the bindings of normal mode (recentHooks is the hook buffer)
NormalKey(st, key, recentHooks) ==
  LET maxSessionIndex == Max(0, Len(st.visibleSessions) - 1)
      maxHookIndex == Max(0, Len(recentHooks) - 1)
      onSessions == st.focusPanel = "sessions" /\ Len(st.visibleSessions) > 0
  IN IF IsUp(key)
     THEN IF st.focusPanel = "hooks"
          THEN Handled([st EXCEPT !.selectedHookIndex = Max(0, @ - 1)], TRUE, "none")
          ELSE Handled([st EXCEPT !.selectedIndex = Max(0, @ - 1)], TRUE, "none")
     ELSE IF IsDown(key)
     THEN IF st.focusPanel = "hooks"
          THEN Handled([st EXCEPT !.selectedHookIndex = Min(maxHookIndex, @ + 1)], TRUE, "none")
          ELSE Handled([st EXCEPT !.selectedIndex = Min(maxSessionIndex, @ + 1)], TRUE, "none")
     ELSE IF key \in {"q", "ctrlC"} THEN Handled(st, FALSE, "quit")
     ELSE IF key = "?" THEN Handled([st EXCEPT !.showHelp = ~@], TRUE, "none")
     ELSE IF key = "l" THEN Handled([st EXCEPT !.showLastLine = ~@], TRUE, "none")
     ELSE IF key = "s" THEN Handled([st EXCEPT !.showStats = ~@], TRUE, "none")
     ELSE IF key = "h"
     THEN Handled([st EXCEPT !.showHooks = ~@,
                             !.focusPanel = IF st.showHooks THEN "sessions" ELSE @],
                  TRUE, "none")
     ELSE IF key = "f" THEN Handled([st EXCEPT !.agentsOnly = ~@], TRUE, "none")
     ELSE IF key = "e" THEN Handled([st EXCEPT !.expandAll = ~@], TRUE, "none")
     ELSE IF key = "r" THEN Handled(st, TRUE, "none")
     ELSE IF IsEnter(key) \/ key = "a"
     THEN IF st.focusPanel = "hooks" /\ Len(recentHooks) > 0
          THEN Handled([st EXCEPT !.showHookDetail = TRUE, !.hookScrollOffset = 0],
                       TRUE, "none")
          ELSE IF onSessions /\ SelectedSession(st) THEN Handled(st, FALSE, "attach")
          ELSE Handled(st, FALSE, "none")
     ELSE IF key = "x" /\ onSessions
     THEN Handled(st, FALSE, IF SelectedSession(st) THEN "kill" ELSE "none")
     ELSE IF key = "D" /\ onSessions
     THEN Handled(st, FALSE, IF SelectedSession(st) THEN "markDone" ELSE "none")
     ELSE IF key = "S" THEN Handled([st EXCEPT !.sortBy = CycleNext(SortModes, @)], TRUE, "none")
     ELSE IF key = "R"
     THEN Handled([st EXCEPT !.intervalMs = CycleNext(RefreshPresets, @)], TRUE, "none")
     ELSE IF key = "N" THEN Handled([st EXCEPT !.notifyDesktop = ~@], TRUE, "none")
     ELSE IF key = "F" /\ st.notifyDesktop
     THEN Handled([st EXCEPT !.showFilterPopup = TRUE, !.filterPopupIndex = 0,
                             !.filterPopupSelected = st.notifyFilter], TRUE, "none")
     ELSE IF key = "T" /\ st.notifyDesktop
     THEN LET value == OrDefault(st.titleTemplate, DEFAULT_TITLE_TEMPLATE)
          IN Handled([st EXCEPT !.showTemplateEditor = TRUE, !.templateEditorField = "title",
                                !.templateEditorValue = value,
                                !.templateEditorCursor = Len(value)], TRUE, "none")
     ELSE Handled(st, FALSE, "none")

\* a routing whose help section closes the overlay without returning, so the
\* key also reaches the normal bindings
HandleKeyFallsThrough(st, key, recentHooks) ==
  IF st.showHelp THEN NormalKey([st EXCEPT !.showHelp = FALSE], key, recentHooks)
  ELSE IF st.showFilterPopup THEN FilterPopupKey(st, key)
  ELSE IF st.showTemplateEditor THEN TemplateEditorKey(st, key)
  ELSE NormalKey(st, key, recentHooks)

\* a routing whose Tab moves the focus whether or not the hooks panel is on
HandleKeyTabUnguarded(st, key, recentHooks) ==
  IF key = "esc" /\ AnyModal(st) THEN EscapeKey(st)
  ELSE IF st.showFilterPopup THEN FilterPopupKey(st, key)
  ELSE IF st.showTemplateEditor THEN TemplateEditorKey(st, key)
  ELSE IF st.showDetailedHelp THEN DetailedHelpKey(st, key)
  ELSE IF st.showHelp THEN HelpKey(st, key)
  ELSE IF st.showHookDetail THEN HookDetailKey(st, key)
  ELSE IF key = "tab"
  THEN Handled([st EXCEPT !.focusPanel = IF @ = "sessions" THEN "hooks" ELSE "sessions"],
               TRUE, "none")
  ELSE NormalKey(st, key, recentHooks)

\* 1256-1536: the routing of one key, sections in the order of the code
HandleKey(st, key, recentHooks) ==
  IF key = "esc" /\ AnyModal(st) THEN EscapeKey(st)
  ELSE IF st.showFilterPopup THEN FilterPopupKey(st, key)
  ELSE IF st.showTemplateEditor THEN TemplateEditorKey(st, key)
  ELSE IF st.showDetailedHelp THEN DetailedHelpKey(st, key)
  ELSE IF st.showHelp THEN HelpKey(st, key)
  ELSE IF st.showHookDetail THEN HookDetailKey(st, key)
  ELSE IF key = "tab" /\ st.showHooks /\ st.hooksEnabled
  THEN Handled([st EXCEPT !.focusPanel = IF @ = "sessions" THEN "hooks" ELSE "sessions"],
               TRUE, "none")
  ELSE NormalKey(st, key, recentHooks)

----------------------------------------------------------------------------
\* Key events and the collaborator calls a handler awaits

InFlight == loopPc \in {"list", "meta", "gather"}

\* a handler executes "needsRefresh = true"
RequestRefresh ==
  /\ needsRefresh' = TRUE
  /\ hist' = [hist EXCEPT !.raised = @ \/ InFlight]

\* the keys the bounds of the model still admit in ViewState st
WithinBounds(st, key) ==
  /\ (st.showTemplateEditor /\ IsPrintable(key) /\ key # "q")
        => Len(st.templateEditorValue) < MaxTemplateLen
  /\ (st.showDetailedHelp /\ IsDown(key)) => st.detailedHelpScrollOffset < MaxScrollKeys
  /\ (st.showHookDetail /\ IsDown(key)) => st.hookScrollOffset < MaxScrollKeys

\* process.stdin.on("data", ...) 1256-1536, up to the handler's first await
KeyWithin(keys, maxPending) ==
  /\ mode = "interactive"
  /\ Running
  /\ budget.keys > 0
  /\ \E key \in keys :
       LET r == HandleKey(state, key, hooksBuffer)
           calls == r.effect \in {"attach", "kill", "markDone"}
           session == state.visibleSessions[state.selectedIndex + 1]
       IN /\ WithinBounds(state, key)
          /\ calls => Cardinality(pending) < maxPending
          /\ state' = r.st
          /\ IF r.refresh THEN RequestRefresh ELSE UNCHANGED <<needsRefresh, hist>>
          /\ pending' = IF calls
                        THEN pending \cup {[kind |-> r.effect, session |-> session,
                                            meta |-> state.sessionMeta[session]]}
                        ELSE pending
          \* attachToSession 1214-1215 and cleanup 1245-1248
          /\ terminal' = IF r.effect \in {"attach", "quit"}
                         THEN [raw |-> FALSE, cursorHidden |-> FALSE] ELSE terminal
          /\ loopPc' = IF r.effect = "quit" THEN "exited" ELSE loopPc
  /\ budget' = [budget EXCEPT !.keys = @ - 1]
  /\ UNCHANGED <<mode, gather, frame, tmux, hasServerCache, metaFile,
                 hooksBuffer, scroll, ps, now, statsCache, spawned>>

KeyFrom(keys) == KeyWithin(keys, MaxPending)

\* 1483-1486: the attach sub-process has exited
AttachReturns ==
  /\ Running
  /\ \E h \in pending :
       /\ h.kind = "attach"
       /\ pending' = pending \ {h}
  /\ terminal' = [raw |-> TRUE, cursorHidden |-> TRUE]
  /\ RequestRefresh
  /\ UNCHANGED <<state, loopPc, mode, gather, frame, tmux, hasServerCache,
                 metaFile, hooksBuffer, budget, scroll, ps, now, statsCache, spawned>>

\* 1492-1493 with lib/tmux.ts killSession 305-312
KillReturns ==
  /\ Running
  /\ \E h \in pending :
       /\ h.kind = "kill"
       /\ pending' = pending \ {h}
       /\ tmux' = IF IsLive(tmux, h.session) THEN [tmux EXCEPT ![h.session.id] = "absent"]
                  ELSE tmux
  /\ RequestRefresh
  /\ UNCHANGED <<state, loopPc, mode, gather, frame, terminal, hasServerCache,
                 metaFile, hooksBuffer, budget, scroll, ps, now, statsCache, spawned>>

\* 1498-1508 with lib/sessions.ts markSessionDone: the rename, then the
\* metadata entry appended to sessions.jsonl (which may fail)
MarkDoneReturns ==
  /\ Running
  /\ \E h \in pending, appendOk \in BOOLEAN :
       LET renames == ~h.session.done
           renamed == renames /\ IsLive(tmux, h.session)
           newName == Name(h.session.id, TRUE)
           entry == [agent |-> h.meta.agent, status |-> "done", preview |-> h.meta.preview]
           stored == (renamed \/ ~renames) /\ appendOk
       IN /\ h.kind = "markDone"
          /\ pending' = pending \ {h}
          /\ tmux' = IF renamed THEN [tmux EXCEPT ![h.session.id] = "done"] ELSE tmux
          /\ metaFile' = IF stored THEN [metaFile EXCEPT ![newName] = entry] ELSE metaFile
          /\ state' = IF stored THEN [state EXCEPT !.sessionMeta[newName] = entry] ELSE state
  /\ RequestRefresh
  /\ UNCHANGED <<loopPc, mode, gather, frame, terminal, hasServerCache,
                 hooksBuffer, budget, scroll, ps, now, statsCache, spawned>>

MAX_HOOKS_BUFFER == 100

\* a buffer that keeps its first entries and drops what arrives when full
addHookToBufferKeepsOldest(buffer, hook) ==
  IF Len(buffer) >= MAX_HOOKS_BUFFER THEN buffer ELSE Append(buffer, hook)

\* watch.ts addHookToBuffer 123-128
addHookToBuffer(buffer, hook) ==
  LET pushed == Append(buffer, hook)
  IN IF Len(pushed) > MAX_HOOKS_BUFFER
     THEN SubSeq(pushed, Len(pushed) - MAX_HOOKS_BUFFER + 1, Len(pushed))
     ELSE pushed

\* createHooksApp handleHook 1045-1055 (state.recentHooks aliases the buffer)
HookArrives ==
  /\ Running
  /\ state.hooksEnabled
  /\ budget.hooks > 0
  /\ hooksBuffer' = addHookToBuffer(hooksBuffer, MaxHookEvents - budget.hooks + 1)
  /\ budget' = [budget EXCEPT !.hooks = @ - 1]
  /\ UNCHANGED <<state, needsRefresh, loopPc, mode, gather, frame, pending,
                 terminal, tmux, hasServerCache, metaFile, hist, scroll, ps, now, statsCache, spawned>>

\* SIGINT / SIGTERM: cleanup 1245-1248 and 1560-1563
Signal ==
  /\ Running
  /\ loopPc' = "exited"
  /\ terminal' = [raw |-> FALSE, cursorHidden |-> FALSE]
  /\ UNCHANGED <<state, needsRefresh, mode, gather, frame, pending, tmux,
                 hasServerCache, metaFile, hooksBuffer, budget, hist, scroll, ps, now, statsCache, spawned>>

\* the keys that move the selection, change what a frame shows, ask for a
\* refresh or act on the selected session
LoopKeys == {"j", "k", "e", "f", "s", "l", "r", "x", "enter", "D"}
LoopKeyEvent == KeyFrom(LoopKeys)

Next ==
  \/ LoopOnRequest
  \/ LoopOnInterval
  \/ ListResolve
  \/ MetaResolve
  \/ GatherResolve
  \/ TmuxChange
  \/ Signal
  \/ LoopKeyEvent
  \/ AttachReturns
  \/ KillReturns
  \/ MarkDoneReturns

Spec == Init /\ [][Next]_vars

\* The key handler with every key it reads, started with --notify-desktop
\* (the hooks server is on by default) so that every modal can be opened
KeysFlags == [hooks |-> TRUE, notifyDesktop |-> TRUE, all |-> FALSE, noExpand |-> FALSE]

KeysInit ==
  /\ Start({"interactive"}, {KeysFlags}, MaxKeys)
  /\ scroll = NoScroll
  /\ ps = InitPs
  /\ NoProcessCalls

KeyEvent == KeyFrom(Keys)

KeysNext ==
  \/ LoopOnRequest
  \/ ListResolve
  \/ MetaResolve
  \/ GatherResolve
  \/ HookArrives
  \/ KeyEvent
  \/ AttachReturns
  \/ KillReturns
  \/ MarkDoneReturns

SpecKeys == KeysInit /\ [][KeysNext]_vars

----------------------------------------------------------------------------
\* The viewport of renderSessions on its own: any previous offset, selected
\* line, content length and line budget

ScrollInputs ==
  {sc \in [rendered : {FALSE}, prev : 0..(MaxContentLines - 1),
            selectedLineIndex : 0..(MaxContentLines - 1),
            contentCount : 1..MaxContentLines, maxLines : 0..MaxLineBudget,
            offset : {0}] :
     sc.selectedLineIndex < sc.contentCount}

ScrollInit ==
  /\ Start({"interactive"}, {NoHooksFlags}, 0)
  /\ scroll \in ScrollInputs
  /\ ps = InitPs
  /\ NoProcessCalls

\* renderSessions 763-784 applied to the drawn inputs
ScrollRender ==
  /\ ~scroll.rendered
  /\ scroll' = [scroll EXCEPT
                  !.rendered = TRUE,
                  !.offset = ScrollOffsetAfter(scroll.prev, scroll.selectedLineIndex,
                                               scroll.contentCount, scroll.maxLines)]
  /\ UNCHANGED <<state, needsRefresh, loopPc, mode, gather, frame, pending, terminal,
                 tmux, hasServerCache, metaFile, hooksBuffer, budget, hist, ps, now, statsCache, spawned>>

ScrollNext == ScrollRender

SpecScroll == ScrollInit /\ [][ScrollNext]_vars

----------------------------------------------------------------------------
\* lib/tmux.ts getProcessStatsBatch on a process listing.  %cpu and %mem are
\* JavaScript numbers: binary floating-point values, written here as
\* multiples of the smallest step and rounded to MantissaBits significant
\* bits; rss is an integer.

Pids == {100, 101, 102}
UnknownPid == 103   \* a pane pid that is not in the listing
OutsidePid == 1     \* the parent of a root of the listing

RECURSIVE BitLength(_)
BitLength(x) == IF x = 0 THEN 0 ELSE 1 + BitLength(x \div 2)

\* the nearest representable number, ties to the even significand
RoundFloat(x) ==
  LET e == BitLength(x) - MantissaBits
  IN IF e <= 0 THEN x
     ELSE LET q == x \div (2 ^ e)
              r == x % (2 ^ e)
              half == 2 ^ (e - 1)
              up == r > half \/ (r = half /\ q % 2 = 1)
          IN (IF up THEN q + 1 ELSE q) * (2 ^ e)

\* totalCpu += descStats.cpu (tmux.ts 492-493): one rounded addition
FloatAdd(x, y) == RoundFloat(x + y)

\* the rows "ps -axo pid,ppid,%cpu,%mem,rss" prints, as parsed at 456-463
StatRows ==
  {[cpu |-> 1, mem |-> 3, rss |-> 10], [cpu |-> 2, mem |-> 6, rss |-> 20],
   [cpu |-> 3, mem |-> 2, rss |-> 30], [cpu |-> 6, mem |-> 1, rss |-> 40]}

PsRow(pid, ppid, st) ==
  [pid |-> pid, ppid |-> ppid, cpu |-> st.cpu, mem |-> st.mem, rss |-> st.rss]

RECURSIVE Ancestors(_, _, _)
\* the pids on the parent chain of pid, followed for at most fuel steps
Ancestors(par, pid, fuel) ==
  IF fuel = 0 \/ par[pid] \notin DOMAIN par THEN {}
  ELSE {par[pid]} \cup Ancestors(par, par[pid], fuel - 1)

\* no process is its own ancestor
Acyclic(par) == \A p \in DOMAIN par : p \notin Ancestors(par, p, Cardinality(DOMAIN par))

Orderings(S) == {f \in [1..Cardinality(S) -> S] : \A i, j \in DOMAIN f : f[i] = f[j] => i = j}

ProcessTables ==
  {[i \in 1..Cardinality(Pids) |-> PsRow(ord[i], par[ord[i]], st[ord[i]])] :
     ord \in Orderings(Pids),
     par \in {f \in [Pids -> Pids \cup {OutsidePid}] : Acyclic(f)},
     st \in [Pids -> StatRows]}

RequestedPids == {{p} : p \in Pids \cup {UnknownPid}} \cup {Pids}

\* childrenMap.get(pid) (467-473): the children in the order of their rows
ChildrenOf(table, pid) ==
  LET rows == SelectSeq(table, LAMBDA r : r.ppid = pid)
  IN [i \in DOMAIN rows |-> rows[i].pid]

\* statsMap.get(pid) (467)
StatsOf(table, pid) == CHOOSE r \in SeqRange(table) : r.pid = pid
HasStats(table, pid) == \E r \in SeqRange(table) : r.pid = pid

RECURSIVE ConcatAll(_)
ConcatAll(seqs) == IF seqs = <<>> THEN <<>> ELSE Head(seqs) \o ConcatAll(Tail(seqs))

\* a walk that stops at the direct children
getChildrenOnly(pid, table) == ChildrenOf(table, pid)

RECURSIVE getDescendantsFromTree(_, _)
\* lib/tmux.ts getDescendantsFromTree 410-418
getDescendantsFromTree(pid, table) ==
  LET children == ChildrenOf(table, pid)
  IN children \o ConcatAll([i \in DOMAIN children |->
                              getDescendantsFromTree(children[i], table)])

RECURSIVE AddStats(_, _, _)
\* 489-496: the totals after adding the stats of the pids in descendants
AddStats(total, descendants, table) ==
  IF descendants = <<>> THEN total
  ELSE LET d == Head(descendants)
           next == IF HasStats(table, d)
                   THEN [total EXCEPT !.cpu = FloatAdd(@, StatsOf(table, d).cpu),
                                      !.memory = FloatAdd(@, StatsOf(table, d).mem),
                                      !.rss = @ + StatsOf(table, d).rss]
                   ELSE total
       IN AddStats(next, Tail(descendants), table)

\* getProcessStatsBatch 476-504 on a fresh listing: pid -> ProcessStats
StatsFromListing(table, pids) ==
  [pid \in {q \in pids : HasStats(table, q)} |->
     AddStats([pid |-> pid, cpu |-> StatsOf(table, pid).cpu,
               memory |-> StatsOf(table, pid).mem, rss |-> StatsOf(table, pid).rss],
              getDescendantsFromTree(pid, table), table)]

PsInit ==
  /\ Start({"interactive"}, {NoHooksFlags}, 0)
  /\ scroll = NoScroll
  /\ \E table \in ProcessTables, pids \in RequestedPids :
       ps = [table |-> table, requested |-> pids, result |-> <<>>, called |-> FALSE]
  /\ NoProcessCalls

\* getProcessStatsBatch 425-512 with no valid statsCache
getProcessStatsBatch ==
  /\ ~ps.called
  /\ ps' = [ps EXCEPT !.called = TRUE,
                      !.result = StatsFromListing(ps.table, ps.requested)]
  /\ UNCHANGED <<state, needsRefresh, loopPc, mode, gather, frame, pending, terminal,
                 tmux, hasServerCache, metaFile, hooksBuffer, budget, hist, scroll,
                 now, statsCache, spawned>>

PsNext == getProcessStatsBatch

SpecPs == PsInit /\ [][PsNext]_vars

----------------------------------------------------------------------------
\* lib/tmux.ts detectAgentsBatch on a process listing.  A command line is a
\* sequence of tokens: words, "/" and " "; a substring test on the text is a
\* contiguous-subsequence test on the tokens.

KNOWN_AGENTS == <<"claude", "codex", "gemini">>

\* comm.toLowerCase() (575) on the command names of the listings
toLowerCase(comm) ==
  CASE comm = "Claude" -> "claude"
    [] comm = "Codex" -> "codex"
    [] OTHER -> comm

\* argsLower.includes(needle)
includes(hay, needle) ==
  \E i \in 0..(Len(hay) - Len(needle)) :
    \A j \in 1..Len(needle) : hay[i + j] = needle[j]

\* 584-590: the first entry of KNOWN_AGENTS whose name occurs in the arguments
\* as "/name" or " name "; 0 when none does
ArgsMatch(args) ==
  LET hits == {k \in DOMAIN KNOWN_AGENTS :
                 \/ includes(args, <<"/", KNOWN_AGENTS[k]>>)
                 \/ includes(args, <<" ", KNOWN_AGENTS[k], " ">>)}
  IN IF hits = {} THEN 0 ELSE CHOOSE k \in hits : \A h \in hits : k <= h

\* 575-591: the agent one process is recognised as, "none" when it is not
AgentOfProcess(info) ==
  IF \E k \in DOMAIN KNOWN_AGENTS : KNOWN_AGENTS[k] = toLowerCase(info.comm)
  THEN toLowerCase(info.comm)
  ELSE IF ArgsMatch(info.args) # 0 THEN KNOWN_AGENTS[ArgsMatch(info.args)]
  ELSE "none"

\* a row of "ps -axo pid,ppid,comm,args" as parsed at 545-553
DetectRow(pid, ppid, comm, args) ==
  [pid |-> pid, ppid |-> ppid, comm |-> comm, args |-> args]

RECURSIVE FirstAgent(_, _)
\* 570-593: the first process of allPids that is in the listing and matches
FirstAgent(allPids, table) ==
  IF allPids = <<>> THEN [agent |-> "none"]
  ELSE LET checkPid == Head(allPids)
           info == StatsOf(table, checkPid)
       IN IF HasStats(table, checkPid) /\ AgentOfProcess(info) # "none"
          THEN [agent |-> AgentOfProcess(info), command |-> info.args, pid |-> checkPid]
          ELSE FirstAgent(Tail(allPids), table)

\* 566-568: the pids examined for one requested pid, in order
allPidsOf(pid, table) == <<pid>> \o getDescendantsFromTree(pid, table)

\* detectAgentsBatch 562-596 on a listing: pid -> DetectedAgent
DetectFromListing(table, pids) ==
  [pid \in {q \in pids : FirstAgent(allPidsOf(q, table), table).agent # "none"} |->
     LET hit == FirstAgent(allPidsOf(pid, table), table)
     IN [agent |-> hit.agent, command |-> hit.command]]

----------------------------------------------------------------------------
\* The descendant walk on a listing that may hold cycles.  The walk is a
\* recursion with one stack frame per call; the engine raises a RangeError
\* when the stack is exhausted, here after MaxCallDepth nested calls, and
\* both batch functions catch it (511, 599) and return an empty map.

MaxCallDepth == 5

RECURSIVE WalkFrom(_, _, _)
RECURSIVE WalkChildren(_, _, _, _)
\* 414-416: the loop over the children, abandoned when a call throws
WalkChildren(acc, rest, table, depth) ==
  IF rest = <<>> \/ acc.thrown THEN acc
  ELSE LET sub == WalkFrom(Head(rest), table, depth + 1)
       IN WalkChildren([thrown |-> sub.thrown,
                        descendants |-> acc.descendants \o sub.descendants,
                        calls |-> acc.calls \o sub.calls],
                       Tail(rest), table, depth)

\* getDescendantsFromTree 410-418 as the engine runs it: the list returned,
\* the pids it was called on, and whether the stack ran out
WalkFrom(pid, table, depth) ==
  IF depth > MaxCallDepth
  THEN [thrown |-> TRUE, descendants |-> <<>>, calls |-> <<pid>>]
  ELSE LET children == ChildrenOf(table, pid)
       IN WalkChildren([thrown |-> FALSE, descendants |-> children, calls |-> <<pid>>],
                       children, table, depth)

WalkCallers == {"getProcessStatsBatch", "detectAgentsBatch"}

\* every parent assignment over the pids, a process that is its own parent
\* and longer cycles included
AnyParents == [Pids -> Pids \cup {OutsidePid}]

WalkTables(caller) ==
  {[i \in 1..Cardinality(Pids) |->
      IF caller = "getProcessStatsBatch"
      THEN PsRow(ord[i], par[ord[i]], [cpu |-> 1, mem |-> 1, rss |-> 10])
      ELSE DetectRow(ord[i], par[ord[i]], "bash", <<"bash">>)] :
     ord \in Orderings(Pids), par \in AnyParents}

WalkInit ==
  /\ Start({"interactive"}, {NoHooksFlags}, 0)
  /\ scroll = NoScroll
  /\ NoProcessCalls
  /\ \E caller \in WalkCallers :
       \E table \in WalkTables(caller), pids \in RequestedPids :
         ps = [caller |-> caller, table |-> table, requested |-> pids,
               called |-> FALSE, thrown |-> FALSE, walks |-> <<>>, result |-> <<>>]

\* 476-504 and 562-596 inside their try blocks: one walk per requested pid;
\* a RangeError in any of them reaches the catch, which returns new Map()
WalkDescendants ==
  /\ ~ps.called
  /\ LET walks == [pid \in ps.requested |-> WalkFrom(pid, ps.table, 1)]
         thrown == \E pid \in ps.requested : walks[pid].thrown
     IN ps' = [ps EXCEPT
                 !.called = TRUE,
                 !.thrown = thrown,
                 !.walks = walks,
                 !.result = IF thrown THEN <<>>
                            ELSE IF ps.caller = "getProcessStatsBatch"
                            THEN StatsFromListing(ps.table, ps.requested)
                            ELSE DetectFromListing(ps.table, ps.requested)]
  /\ UNCHANGED <<state, needsRefresh, loopPc, mode, gather, frame, pending, terminal,
                 tmux, hasServerCache, metaFile, hooksBuffer, budget, hist, scroll,
                 now, statsCache, spawned>>

WalkNext == WalkDescendants

SpecWalk == WalkInit /\ [][WalkNext]_vars

----------------------------------------------------------------------------
\* lib/tmux.ts statsCache: getProcessStatsBatch and detectAgentsBatch called
\* again and again while time passes and the processes of the system change.

STATS_CACHE_TTL == 5000
MaxTime == 6000
MaxBatchCalls == 3
TickSteps == {1000, 4000}

\* a process as both listings show it
FullRow(pid, ppid, st, comm, args) ==
  [pid |-> pid, ppid |-> ppid, cpu |-> st.cpu, mem |-> st.mem, rss |-> st.rss,
   comm |-> comm, args |-> args]

\* the processes of the system: a shell running a wrapped agent, and a second
\* shell; later the agent has exited and the loads have changed
SystemTables ==
  {<<FullRow(100, OutsidePid, [cpu |-> 1, mem |-> 1, rss |-> 10], "bash", <<"bash">>),
     FullRow(101, 100, [cpu |-> 2, mem |-> 2, rss |-> 20], "node",
             <<"node", " ", "/", "bin", "/", "codex">>),
     FullRow(102, OutsidePid, [cpu |-> 1, mem |-> 2, rss |-> 30], "zsh", <<"zsh">>)>>,
   <<FullRow(100, OutsidePid, [cpu |-> 3, mem |-> 1, rss |-> 40], "bash", <<"bash">>),
     FullRow(102, OutsidePid, [cpu |-> 2, mem |-> 1, rss |-> 10], "zsh", <<"zsh">>)>>}

\* how a spawn of ps can end: rows printed with exit code 0, Bun.spawn throws,
\* a non-zero exit code, exit code 0 with rows that do not parse
ListingOutcomes == {"ok", "spawn-fails", "exit-nonzero", "unparseable"}

\* a listing that is used whatever became of the spawn
ListingAlwaysReturned(outcome) == TRUE

\* 441-448, 531-538: the spawn did not throw and proc.exitCode is 0, so the
\* function goes on to parse the rows
ListingReturned(outcome) == outcome \in {"ok", "unparseable"}

\* 439-511, 529-599: the spawn and all that follows it are inside try, and
\* the catch returns new Map()
SpawnInsideTry == TRUE

\* the call ends by throwing: an error raised outside the try block
Throws(outcome) == outcome = "spawn-fails" /\ ~SpawnInsideTry

\* the rows that survive parsing (455-463, 545-553)
ParsedRows(table, outcome) == IF outcome = "ok" THEN table ELSE <<>>

\* the pid lists the callers pass (watch.ts 969-1001)
CallPids == {{}, {100}, {102}}

\* a cache that is never refreshed
statsCacheNeverExpires(cache, t) == cache.valid

\* 429: statsCache && Date.now() - statsCache.timestamp < STATS_CACHE_TTL
statsCacheFresh(cache, t) == cache.valid /\ t - cache.timestamp < STATS_CACHE_TTL

\* 431-436: the cached entries of the requested pids
CachedStats(cache, pids) ==
  [pid \in {q \in pids : q \in DOMAIN cache.data} |-> cache.data[pid]]

NoCall == [fn |-> "none"]

CacheInit ==
  /\ Start({"interactive"}, {NoHooksFlags}, 0)
  /\ scroll = NoScroll
  /\ NoProcessCalls
  /\ \E table \in SystemTables :
       ps = [table |-> table, calls |-> 0, hits |-> 0, last |-> NoCall, listing |-> <<>>]

\* a spawn of ps: the function that issued it and the time
Spawn(fn) == [fn |-> fn, at |-> now]

\* getProcessStatsBatch 425-512
StatsBatchCall ==
  /\ ps.calls < MaxBatchCalls
  /\ \E pids \in CallPids, outcome \in ListingOutcomes :
       LET hit == statsCacheFresh(statsCache, now)
           spawns == pids # {} /\ ~hit
           listed == spawns /\ ListingReturned(outcome)
           result == IF pids = {} THEN <<>>
                     ELSE IF hit THEN CachedStats(statsCache, pids)
                     ELSE IF listed
                     THEN StatsFromListing(ParsedRows(ps.table, outcome), pids)
                     ELSE <<>>
       IN /\ (~spawns) => outcome = "ok"
          /\ spawned' = IF spawns THEN Append(spawned, Spawn("getProcessStatsBatch"))
                        ELSE spawned
          /\ statsCache' = IF listed
                           THEN [valid |-> TRUE, data |-> result, timestamp |-> now]
                           ELSE statsCache
          /\ ps' = [ps EXCEPT
                      !.calls = @ + 1,
                      !.hits = IF pids # {} /\ hit THEN @ + 1 ELSE @,
                      !.listing = IF listed THEN ParsedRows(ps.table, outcome) ELSE @,
                      !.last = [fn |-> "getProcessStatsBatch", pids |-> pids,
                                hit |-> pids # {} /\ hit, spawns |-> spawns,
                                outcome |-> outcome, threw |-> spawns /\ Throws(outcome), result |-> result]]
  /\ UNCHANGED <<state, needsRefresh, loopPc, mode, gather, frame, pending, terminal,
                 tmux, hasServerCache, metaFile, hooksBuffer, budget, hist, scroll, now>>

\* detectAgentsBatch 526-602
DetectBatchCall ==
  /\ ps.calls < MaxBatchCalls
  /\ \E pids \in CallPids, outcome \in ListingOutcomes :
       LET spawns == pids # {}
           result == IF spawns /\ ListingReturned(outcome)
                     THEN DetectFromListing(ParsedRows(ps.table, outcome), pids)
                     ELSE <<>>
       IN /\ (~spawns) => outcome = "ok"
          /\ spawned' = IF spawns THEN Append(spawned, Spawn("detectAgentsBatch"))
                        ELSE spawned
          /\ ps' = [ps EXCEPT
                      !.calls = @ + 1,
                      !.last = [fn |-> "detectAgentsBatch", pids |-> pids,
                                hit |-> FALSE, spawns |-> spawns,
                                outcome |-> outcome, threw |-> spawns /\ Throws(outcome), result |-> result]]
  /\ UNCHANGED <<state, needsRefresh, loopPc, mode, gather, frame, pending, terminal,
                 tmux, hasServerCache, metaFile, hooksBuffer, budget, hist, scroll,
                 now, statsCache>>

\* time passes between two polls
Tick ==
  /\ \E d \in TickSteps : now + d <= MaxTime /\ now' = now + d
  /\ UNCHANGED <<state, needsRefresh, loopPc, mode, gather, frame, pending, terminal,
                 tmux, hasServerCache, metaFile, hooksBuffer, budget, hist, scroll, ps,
                 statsCache, spawned>>

\* processes start, exit and change their load
ProcessesChange ==
  /\ \E table \in SystemTables \ {ps.table} : ps' = [ps EXCEPT !.table = table]
  /\ UNCHANGED <<state, needsRefresh, loopPc, mode, gather, frame, pending, terminal,
                 tmux, hasServerCache, metaFile, hooksBuffer, budget, hist, scroll,
                 now, statsCache, spawned>>

CacheNext == StatsBatchCall \/ DetectBatchCall \/ Tick \/ ProcessesChange

SpecCache == CacheInit /\ [][CacheNext]_vars

----------------------------------------------------------------------------
\* watch.ts getSessionAgent called poll after poll on one agentCache, with
\* the metadata and the detection results of each poll as inputs.

MaxPolls == 3

\* the pane pids detectAgentsBatch can report an agent for
DetectablePids == {ap.pane.panePid : ap \in {x \in AllPanes : x.pane.detects # "none"}}

AgentInit ==
  /\ Start({"interactive"}, {NoHooksFlags}, 0)
  /\ scroll = NoScroll
  /\ NoProcessCalls
  /\ ps = [polls |-> 0, last |-> NoCall]

\* getSessionAgent 624-653 as renderSessions calls it for one session
ResolveAgent ==
  /\ ps.polls < MaxPolls
  /\ \E session \in Names, metaAgent \in {"none", "claude", "gemini"},
        detected \in SUBSET DetectablePids, agentsOnly \in BOOLEAN :
       LET meta == [NoMeta EXCEPT !.agent = metaAgent]
           resolved == getSessionAgent(session, meta, detected, state.agentCache, agentsOnly)
       IN /\ state' = [state EXCEPT !.agentCache = resolved.cache]
          /\ ps' = [polls |-> ps.polls + 1,
                    last |-> [fn |-> "getSessionAgent", session |-> session, meta |-> meta,
                              detected |-> detected, agentsOnly |-> agentsOnly,
                              before |-> state.agentCache[session],
                              agent |-> resolved.agent]]
  /\ UNCHANGED <<needsRefresh, loopPc, mode, gather, frame, pending, terminal,
                 tmux, hasServerCache, metaFile, hooksBuffer, budget, hist, scroll,
                 now, statsCache, spawned>>

AgentNext == ResolveAgent

SpecAgent == AgentInit /\ [][AgentNext]_vars

----------------------------------------------------------------------------
\* lib/tmux.ts detectAgentsBatch on process trees up to three levels below
\* the requested pane pid.

TreePids == {200, 201, 202, 203, 204, 205}
RootPid == 200
MaxAgentsInTree == 2

\* every forest in which a parent has a smaller pid than its children and
\* the pane's shell is a root
TreeParents ==
  {par \in [TreePids -> TreePids \cup {OutsidePid}] :
     /\ par[RootPid] = OutsidePid
     /\ \A p \in TreePids : par[p] # OutsidePid => par[p] < p}

\* what a process runs: a shell, an agent binary, an agent wrapped by node
Programs ==
  {[comm |-> "bash", args |-> <<"bash">>],
   [comm |-> "Claude", args |-> <<"Claude", " ", "-r">>],
   [comm |-> "node", args |-> <<"node", " ", "/", "bin", "/", "codex">>]}

TreePrograms ==
  {prog \in [TreePids -> Programs] :
     Cardinality({p \in TreePids : prog[p].comm # "bash"}) <= MaxAgentsInTree}

\* the rows in the order ps prints them: by pid, ascending or descending
TreeTables ==
  {[i \in 1..Cardinality(TreePids) |->
      LET pid == IF up THEN RootPid + i - 1 ELSE RootPid + Cardinality(TreePids) - i
      IN DetectRow(pid, par[pid], prog[pid].comm, prog[pid].args)] :
     up \in BOOLEAN, par \in TreeParents, prog \in TreePrograms}

DetectInit ==
  /\ Start({"interactive"}, {NoHooksFlags}, 0)
  /\ scroll = NoScroll
  /\ NoProcessCalls
  /\ \E table \in TreeTables :
       ps = [table |-> table, requested |-> {RootPid}, called |-> FALSE,
             examined |-> <<>>, result |-> <<>>]

\* detectAgentsBatch 562-596 for the pane pid: the pids examined, in order,
\* and the result
detectAgentsBatch ==
  /\ ~ps.called
  /\ ps' = [ps EXCEPT !.called = TRUE,
                      !.examined = allPidsOf(RootPid, ps.table),
                      !.result = DetectFromListing(ps.table, ps.requested)]
  /\ UNCHANGED <<state, needsRefresh, loopPc, mode, gather, frame, pending, terminal,
                 tmux, hasServerCache, metaFile, hooksBuffer, budget, hist, scroll,
                 now, statsCache, spawned>>

DetectNext == detectAgentsBatch

SpecDetect == DetectInit /\ [][DetectNext]_vars

----------------------------------------------------------------------------
\* lib/tmux.ts listSessions(filter) on the output of tmux list-sessions and
\* tmux list-panes -a.  A session name is a string of characters.

MaxListed == 3

AwmClaudeA1 == <<"a", "w", "m", "-", "c", "l", "a", "u", "d", "e", "-", "a", "1">>
AwmCodexB2 == <<"a", "w", "m", "-", "c", "o", "d", "e", "x", "-", "b", "2">>
OtherX == <<"o", "t", "h", "e", "r", "-", "x">>

\* the names sessions can have: every string of one or two characters over
\* a, w, and three longer ones
SessionNames ==
  {<<c>> : c \in {"a", "w"}} \cup {<<c, d>> : c, d \in {"a", "w"}}
    \cup {AwmClaudeA1, AwmCodexB2, OtherX}

\* --filter PREFIX (watch.ts 348); <<>> is no filter or the empty string
Filters == {<<>>, <<"a">>, <<"w">>, <<"a", "w">>, <<"a", "w", "m">>, <<"o", "t", "h">>}

\* list-sessions prints each session once
SessionOutputs ==
  {out \in UNION {[1..n -> SessionNames] : n \in 0..MaxListed} :
     \A i, j \in DOMAIN out : out[i] = out[j] => i = j}

PaneLine(sessionName, windowIndex, paneIndex) ==
  [sessionName |-> sessionName, windowIndex |-> windowIndex, paneIndex |-> paneIndex]

\* list-panes -a for the listed sessions: one window with two panes each,
\* and the pane of a session created after list-sessions ran
PaneOutput(out) ==
  ConcatAll([i \in DOMAIN out |-> <<PaneLine(out[i], 0, 0), PaneLine(out[i], 0, 1)>>])
    \o <<PaneLine(<<"w", "a", "w">>, 0, 0)>>

\* a filter that matches anywhere in the name
nameIncludes(name, prefix) == includes(name, prefix)

\* name.startsWith(filter) (63)
startsWith(name, prefix) ==
  Len(prefix) <= Len(name) /\ SubSeq(name, 1, Len(prefix)) = prefix

\* 80-118: the windows of one session, built from its pane lines in order
WindowsOf(name, paneOutput) ==
  LET mine == SelectSeq(paneOutput, LAMBDA l : l.sessionName = name)
      isFirst(i) == \A j \in 1..(i - 1) : mine[j].windowIndex # mine[i].windowIndex
      firsts == SelectSeq([i \in DOMAIN mine |-> i], isFirst)
  IN [k \in DOMAIN firsts |->
        [sessionName |-> name, index |-> mine[firsts[k]].windowIndex,
         panes |-> SelectSeq(mine, LAMBDA l : l.windowIndex = mine[firsts[k]].windowIndex)]]

\* listSessions 44-121
listSessions(filter, hasServer, sessionOutput, paneOutput) ==
  IF ~hasServer \/ sessionOutput = <<>> THEN <<>>
  ELSE LET kept == SelectSeq(sessionOutput,
                             LAMBDA name : ~(filter # <<>> /\ ~startsWith(name, filter)))
       IN [i \in DOMAIN kept |-> [name |-> kept[i],
                                  windowList |-> WindowsOf(kept[i], paneOutput)]]

ListInit ==
  /\ Start({"interactive"}, {NoHooksFlags}, 0)
  /\ scroll = NoScroll
  /\ NoProcessCalls
  /\ \E out \in SessionOutputs, filter \in Filters, hasServer \in BOOLEAN :
       ps = [sessionOutput |-> out, paneOutput |-> PaneOutput(out), filter |-> filter,
             hasServer |-> hasServer, called |-> FALSE, result |-> <<>>]

\* one call of listSessions(filter)
ListSessionsCall ==
  /\ ~ps.called
  /\ ps' = [ps EXCEPT !.called = TRUE,
                      !.result = listSessions(ps.filter, ps.hasServer,
                                              ps.sessionOutput, ps.paneOutput)]
  /\ UNCHANGED <<state, needsRefresh, loopPc, mode, gather, frame, pending, terminal,
                 tmux, hasServerCache, metaFile, hooksBuffer, budget, hist, scroll,
                 now, statsCache, spawned>>

ListNext == ListSessionsCall

SpecList == ListInit /\ [][ListNext]_vars

----------------------------------------------------------------------------
\* The refresh loop against the clock: interactiveLoop refreshes when the
\* interval has elapsed, listSessions asks tmuxHasServer, and tmuxHasServer
\* answers from hasServerCache for HAS_SERVER_CACHE_TTL milliseconds.  The
\* server runs while session a exists.  A refresh takes no time.

HAS_SERVER_CACHE_TTL == 5000
MaxStaleTime == 12000
MaxServerChanges == 2

\* the clock is read on a grid of the smallest preset
TimeStep == RefreshPresets[1]

ServerRuns(t) == \E id \in SessionIds : t[id] # "absent"

\* lib/tmux.ts 10: let hasServerCache = null
NoServerCache == [valid |-> FALSE]

StaleInit ==
  /\ mode = "interactive"
  /\ \E preset \in SeqRange(RefreshPresets) :
       state = [InitState(NoHooksFlags) EXCEPT !.intervalMs = preset]
  /\ budget = [keys |-> 0, tmux |-> MaxServerChanges, hooks |-> 0]
  /\ needsRefresh = TRUE
  /\ loopPc = "sleep"
  /\ gather = NoGather
  /\ frame = NoFrame
  /\ pending = {}
  /\ terminal = [raw |-> TRUE, cursorHidden |-> TRUE]
  /\ \E a \in {"absent", "live"} :
       tmux = [id \in SessionIds |-> IF id = "a" THEN a ELSE "absent"]
  /\ hasServerCache = NoServerCache
  /\ metaFile = InitMetaFile
  /\ hooksBuffer = <<>>
  /\ hist = [lastRefresh |-> 0, refreshes |-> 0, changedAt |-> 0]
  /\ scroll = NoScroll
  /\ ps = InitPs
  /\ NoProcessCalls

\* interactiveLoop 1541: needsRefresh || now - lastRefresh >= state.intervalMs
RefreshDue == needsRefresh \/ now - hist.lastRefresh >= state.intervalMs

\* tmuxHasServer 26: the cached answer is still valid
hasServerCacheFresh(cache, t) ==
  cache.valid /\ t - cache.timestamp < HAS_SERVER_CACHE_TTL

\* one iteration of interactiveLoop that refreshes (1539-1551): refreshState
\* replaces state.sessions by what listSessions returns (1226-1229)
TimedRefresh ==
  /\ RefreshDue
  /\ LET cached == hasServerCacheFresh(hasServerCache, now)
         hasServer == IF cached THEN hasServerCache.value ELSE ServerRuns(tmux)
         sorted == sortSessions(IF hasServer THEN TmuxList(tmux) ELSE <<>>, state.sortBy)
         listed == [state EXCEPT !.sessions = sorted,
                                 !.visibleSessions = getVisibleSessions(sorted, state.agentsOnly)]
     IN /\ hasServerCache' = IF cached THEN hasServerCache
                             ELSE [valid |-> TRUE, value |-> ServerRuns(tmux),
                                   timestamp |-> now]
        /\ state' = [listed EXCEPT !.selectedIndex = ClampSelection(listed)]
  /\ needsRefresh' = FALSE
  /\ hist' = [hist EXCEPT !.lastRefresh = now, !.refreshes = @ + 1]
  /\ UNCHANGED <<loopPc, mode, gather, frame, pending, terminal, tmux, metaFile,
                 hooksBuffer, budget, scroll, ps, now, statsCache, spawned>>

\* the loop sleeps while no refresh is due (1553)
LoopSleeps ==
  /\ ~RefreshDue
  /\ now + TimeStep <= MaxStaleTime
  /\ now' = now + TimeStep
  /\ UNCHANGED <<state, needsRefresh, loopPc, mode, gather, frame, pending, terminal,
                 tmux, hasServerCache, metaFile, hooksBuffer, budget, hist, scroll, ps,
                 statsCache, spawned>>

\* session a is created (starting the server) or killed (stopping it)
ServerChange ==
  /\ budget.tmux > 0
  /\ tmux' = [tmux EXCEPT !["a"] = IF @ = "absent" THEN "live" ELSE "absent"]
  /\ budget' = [budget EXCEPT !.tmux = @ - 1]
  /\ hist' = [hist EXCEPT !.changedAt = now]
  /\ UNCHANGED <<state, needsRefresh, loopPc, mode, gather, frame, pending, terminal,
                 hasServerCache, metaFile, hooksBuffer, scroll, ps, now, statsCache,
                 spawned>>

StaleNext == TimedRefresh \/ LoopSleeps \/ ServerChange

SpecStale == StaleInit /\ [][StaleNext]_vars

----------------------------------------------------------------------------
\* The hook buffer from start-up on: main loads the tail of hooks.jsonl
\* (1739-1744) before the hooks server starts, then every hook received is
\* appended by handleHook.  A hook is the number of its arrival.

MaxAppends == 150

\* the number of entries hooks.jsonl holds at start-up
StoredHookCounts == {0, 60, 130}

\* lib/jsonl.ts readJsonlTail 47-53: all.slice(-limit)
readJsonlTail(all, limit) ==
  IF Len(all) <= limit THEN all ELSE SubSeq(all, Len(all) - limit + 1, Len(all))

BufferInit ==
  /\ mode = "interactive"
  /\ state = InitState(KeysFlags)
  /\ budget = [keys |-> 0, tmux |-> 0, hooks |-> 0]
  /\ needsRefresh = TRUE
  /\ loopPc = "list"
  /\ gather = NoGather
  /\ frame = NoFrame
  /\ pending = {}
  /\ terminal = [raw |-> TRUE, cursorHidden |-> TRUE]
  /\ tmux = [id \in SessionIds |-> "live"]
  /\ hasServerCache = "none"
  /\ metaFile = InitMetaFile
  /\ hist = [inflight |-> 1, raised |-> FALSE]
  /\ scroll = NoScroll
  /\ NoProcessCalls
  /\ \E stored \in StoredHookCounts :
       /\ ps = [stored |-> stored, appended |-> 0]
       /\ hooksBuffer = readJsonlTail([i \in 1..stored |-> i], MAX_HOOKS_BUFFER)

\* handleHook 1045-1055: addHookToBuffer(entry)
BufferAppend ==
  /\ ps.appended < MaxAppends
  /\ hooksBuffer' = addHookToBuffer(hooksBuffer, ps.stored + ps.appended + 1)
  /\ ps' = [ps EXCEPT !.appended = @ + 1]
  /\ UNCHANGED <<state, needsRefresh, loopPc, mode, gather, frame, pending, terminal,
                 tmux, hasServerCache, metaFile, budget, hist, scroll,
                 now, statsCache, spawned>>

BufferNext == BufferAppend

SpecBuffer == BufferInit /\ [][BufferNext]_vars

----------------------------------------------------------------------------
\* The whole run of the watcher, failures included: main 1746-1776 starts the
\* hooks server and one of the two loops; a collaborator call may fail
\* (return its failure value) or throw (Bun.spawn rejects, a write fails).
\* ps records what the run reported: the last failure and the number of
\* warning lines written by the mark-done handler (1505-1507).

MaxRunKeys == 2
MaxRunPending == 2

RunKeys == {"j", "x", "enter", "D", "q"}

RunInit ==
  /\ Start({"interactive", "watch", "once"}, {NoHooksFlags, KeysFlags}, MaxRunKeys)
  /\ scroll = NoScroll
  /\ ps = [last |-> "none", failures |-> 0, warnings |-> 0]
  /\ NoProcessCalls

RunKeyEvent == KeyWithin(RunKeys, MaxRunPending)

\* lib/tmux.ts runTmux 13-21 inside listSessions 53-56: Bun.spawn is not
\* guarded, so once tmuxHasServer has answered true a spawn that throws
\* rejects listSessions, refreshState 1227 and the loop's await (1542 /
\* 1570); main().catch(console.error) 1776 only prints the error.  The key
\* listener and the hooks server stay; no frame is written any more.
ListThrows ==
  /\ loopPc = "list"
  /\ \/ hasServerCache = "yes"
     \/ \E id \in SessionIds : tmux[id] # "absent"
  /\ loopPc' = "crashed"
  /\ hist' = [hist EXCEPT !.inflight = @ - 1]
  /\ ps' = [ps EXCEPT !.last = "listThrows"]
  /\ UNCHANGED <<state, needsRefresh, mode, gather, frame, pending, terminal, tmux,
                 hasServerCache, metaFile, hooksBuffer, budget, scroll,
                 now, statsCache, spawned>>

\* 1492-1493 with lib/tmux.ts killSession 305-312: the exit code is returned
\* and the handler drops it
KillEnds ==
  /\ Running
  /\ \E h \in pending :
       LET killed == IsLive(tmux, h.session)
       IN /\ h.kind = "kill"
          /\ pending' = pending \ {h}
          /\ tmux' = IF killed THEN [tmux EXCEPT ![h.session.id] = "absent"] ELSE tmux
          /\ ps' = IF killed THEN ps
                   ELSE [ps EXCEPT !.last = "killFailed", !.failures = @ + 1]
  /\ RequestRefresh
  /\ UNCHANGED <<state, loopPc, mode, gather, frame, terminal, hasServerCache,
                 metaFile, hooksBuffer, budget, scroll, now, statsCache, spawned>>

\* 1498-1508 with lib/sessions.ts markSessionDone 162-197: a rename that
\* fails returns null (no warning); a spawn or an append that throws is
\* caught at 1505 and reported with console.error
MarkDoneEnds ==
  /\ Running
  /\ \E h \in pending, spawnOk \in BOOLEAN, appendOk \in BOOLEAN :
       LET renames == ~h.session.done
           renamed == spawnOk /\ renames /\ IsLive(tmux, h.session)
           newName == Name(h.session.id, TRUE)
           entry == [agent |-> h.meta.agent, status |-> "done", preview |-> h.meta.preview]
           isNull == spawnOk /\ renames /\ ~renamed
           appends == IF renames THEN renamed ELSE TRUE
           throws == (renames /\ ~spawnOk) \/ (appends /\ ~appendOk)
           stored == appends /\ appendOk
       IN /\ h.kind = "markDone"
          /\ renames \/ spawnOk
          /\ appends \/ appendOk
          /\ pending' = pending \ {h}
          /\ tmux' = IF renamed THEN [tmux EXCEPT ![h.session.id] = "done"] ELSE tmux
          /\ metaFile' = IF stored THEN [metaFile EXCEPT ![newName] = entry] ELSE metaFile
          /\ state' = IF stored THEN [state EXCEPT !.sessionMeta[newName] = entry] ELSE state
          /\ ps' = CASE throws -> [last |-> "markDoneThrows", failures |-> ps.failures + 1,
                                   warnings |-> ps.warnings + 1]
                     [] isNull -> [ps EXCEPT !.last = "markDoneNull", !.failures = @ + 1]
                     [] OTHER  -> ps
  /\ RequestRefresh
  /\ UNCHANGED <<loopPc, mode, gather, frame, terminal, hasServerCache,
                 hooksBuffer, budget, scroll, now, statsCache, spawned>>

\* Bun.spawn throws inside attachToSession 1217 or killSession 306: neither
\* the callee nor the handler (1483-1493) catches, so the handler ends there:
\* no setupRawMode, no "needsRefresh = true".  The rejection is unhandled;
\* the runtime either only reports it or ends the process.
HandlerRejects ==
  /\ Running
  /\ \E h \in pending, dies \in BOOLEAN :
       /\ h.kind \in {"attach", "kill"}
       /\ pending' = pending \ {h}
       /\ ps' = IF h.kind = "kill"
                THEN [ps EXCEPT !.last = "killThrows", !.failures = @ + 1]
                ELSE [ps EXCEPT !.last = "attachThrows"]
       /\ loopPc' = IF dies THEN "exited" ELSE loopPc
  /\ UNCHANGED <<state, needsRefresh, mode, gather, frame, terminal, tmux,
                 hasServerCache, metaFile, hooksBuffer, budget, hist, scroll,
                 now, statsCache, spawned>>

\* main 1769-1773 returns after nonInteractiveLoop's break (1576): the
\* process ends unless the hooks server started at 1746-1753 is listening
MainReturns ==
  /\ loopPc = "done"
  /\ loopPc' = IF state.hooksEnabled THEN "serving" ELSE "exited"
  /\ UNCHANGED <<state, needsRefresh, mode, gather, frame, pending, terminal, tmux,
                 hasServerCache, metaFile, hooksBuffer, budget, hist, scroll, ps,
                 now, statsCache, spawned>>

RunNext ==
  \/ LoopOnRequest
  \/ LoopOnInterval
  \/ ListResolve
  \/ ListThrows
  \/ MetaResolve
  \/ GatherResolve
  \/ Signal
  \/ RunKeyEvent
  \/ AttachReturns
  \/ KillEnds
  \/ MarkDoneEnds
  \/ HandlerRejects
  \/ MainReturns

SpecRun == RunInit /\ [][RunNext]_vars

----------------------------------------------------------------------------
\* Attaching: the Enter key (1474-1488) awaits attachToSession 1213-1223
\* while the stdin listener stays registered, so further keys are handled
\* during an attach, a second Enter included.

MaxAttachKeys == 3

AttachKeys == {"j", "enter"}

AttachInit ==
  /\ Start({"interactive"}, {NoHooksFlags}, MaxAttachKeys)
  /\ scroll = NoScroll
  /\ ps = [last |-> "none", failures |-> 0, warnings |-> 0]
  /\ NoProcessCalls

AttachKeyEvent == KeyWithin(AttachKeys, MaxRunPending)

AttachNext ==
  \/ LoopOnRequest
  \/ LoopOnInterval
  \/ ListResolve
  \/ MetaResolve
  \/ GatherResolve
  \/ AttachKeyEvent
  \/ AttachReturns
  \/ HandlerRejects

SpecAttach == AttachInit /\ [][AttachNext]_vars

----------------------------------------------------------------------------
\* Rendering twice: renderDisplay 968-1009 and renderSessions 655-799 applied
\* two times in succession to one snapshot (sessions, metadata, process
\* table).  ps.agents is the process table as detectAgentsBatch sees it: the
\* agent found in the process tree of each pane pid.  A frame is what
\* renderSessions lays out: per session its agent badge and, when expanded,
\* the agent shown next to each pane, then the viewport.

MaxRenders == 2
MaxStartOffset == 2

PanePids == {ap.pane.panePid : ap \in AllPanes}
TreeAgents == {"none", "claude", "codex"}

\* lib/tmux.ts detectAgentsBatch 526-602: the pids asked for that have an
\* agent in their tree
DetectedAgents(pids, agents) ==
  [pid \in {p \in pids : agents[p] # "none"} |-> agents[pid]]

\* watch.ts getSessionAgent 624-652 over a detection map
getSessionAgentFrom(session, meta, detectedAgents, agentCache, agentsOnly) ==
  IF meta.agent # "none" THEN [agent |-> meta.agent, cache |-> agentCache]
  ELSE IF agentCache[session] # "none"
  THEN [agent |-> agentCache[session], cache |-> agentCache]
  ELSE LET hits == SelectSeq(FlatPanes(session, agentsOnly),
                             LAMBDA fp : fp.pane.panePid \in DOMAIN detectedAgents)
       IN IF hits = <<>> THEN [agent |-> "none", cache |-> agentCache]
          ELSE [agent |-> detectedAgents[Head(hits).pane.panePid],
                cache |-> [agentCache EXCEPT
                             ![session] = detectedAgents[Head(hits).pane.panePid]]]

\* renderSessions 702-749: the badge of a session and the "(agent)" text of
\* each of its panes ("none" where nothing is shown)
SessionEntry(st, i, detectedAgents) ==
  LET session == st.visibleSessions[i]
      agentName == getSessionAgentFrom(session, st.sessionMeta[session], detectedAgents,
                                       st.agentCache, st.agentsOnly).agent
      panes == FlatPanes(session, st.agentsOnly)
      paneAgentStr(pid) ==
        IF pid \in DOMAIN detectedAgents /\ detectedAgents[pid] # agentName
        THEN detectedAgents[pid] ELSE "none"
  IN [name |-> session, agentBadge |-> agentName,
      panes |-> IF IsExpanded(st, i)
                THEN [j \in DOMAIN panes |-> paneAgentStr(panes[j].pane.panePid)]
                ELSE <<>>]

RECURSIVE CacheFrom(_, _, _, _)
\* the memo cache after getSessionAgent has run for sessions i..Len
CacheFrom(st, detectedAgents, i, cache) ==
  IF i > Len(st.visibleSessions) THEN cache
  ELSE LET s == st.visibleSessions[i]
       IN CacheFrom(st, detectedAgents, i + 1,
            getSessionAgentFrom(s, st.sessionMeta[s], detectedAgents, cache,
                                st.agentsOnly).cache)

\* renderDisplay 968-1009: gather, detect for the sessions without a known
\* agent, lay out; the frame and the ViewState left behind
renderDisplay(st, agents, t) ==
  LET g == CollectPaneData(st)
      captured == capturePanes(g.paneTargets, t)
      detectedAgents == DetectedAgents(g.pidsNeedingDetection, agents)
      sessions == st.visibleSessions
      counts == [i \in DOMAIN sessions |->
                   SessionLineCount(sessions[i], IsExpanded(st, i), st, captured)]
      contentCount == SumSeq(counts)
      selectedLineIndex ==
        IF st.selectedIndex + 1 \in DOMAIN sessions
        THEN SumSeq(SubSeq(counts, 1, st.selectedIndex)) ELSE -1
      offset == ScrollOffsetAfter(st.scrollOffset, selectedLineIndex, contentCount,
                                  maxSessionLines(g.showHooks))
  IN [frame |-> [entries |-> [i \in DOMAIN sessions |-> SessionEntry(st, i, detectedAgents)],
                 counts |-> counts,
                 scrollOffset |-> IF sessions = <<>> THEN 0 ELSE offset],
      st |-> IF sessions = <<>> THEN st
             ELSE [st EXCEPT !.scrollOffset = offset,
                             !.agentCache = CacheFrom(st, detectedAgents, 1, st.agentCache)]]

RenderInit ==
  /\ mode = "interactive"
  /\ budget = [keys |-> 0, tmux |-> 0, hooks |-> 0]
  /\ needsRefresh = TRUE
  /\ loopPc = "gather"
  /\ gather = NoGather
  /\ frame = NoFrame
  /\ pending = {}
  /\ terminal = [raw |-> TRUE, cursorHidden |-> TRUE]
  /\ tmux = [id \in SessionIds |-> "live"]
  /\ hasServerCache = "yes"
  /\ metaFile = InitMetaFile
  /\ hooksBuffer = <<>>
  /\ hist = <<>>
  /\ scroll = NoScroll
  /\ NoProcessCalls
  /\ \E fl \in {NoHooksFlags, [NoHooksFlags EXCEPT !.all = TRUE]},
        expandAll \in BOOLEAN, selectedIndex \in 0..2, offset \in 0..MaxStartOffset :
       LET sessions == TmuxList(tmux)
       IN state = [InitState(fl) EXCEPT
                     !.sessions = sessions,
                     !.visibleSessions = getVisibleSessions(sessions, ~fl.all),
                     !.sessionMeta = metaFile,
                     !.expandAll = expandAll,
                     !.selectedIndex = Min(selectedIndex,
                                           Len(getVisibleSessions(sessions, ~fl.all)) - 1),
                     !.scrollOffset = offset]
  /\ \E agents \in [PanePids -> TreeAgents] : ps = [agents |-> agents]

\* one more render of the same snapshot: hist collects the frames
RenderAgain ==
  /\ Len(hist) < MaxRenders
  /\ LET r == renderDisplay(state, ps.agents, tmux)
     IN /\ hist' = Append(hist, r.frame)
        /\ state' = r.st
  /\ UNCHANGED <<needsRefresh, loopPc, mode, gather, frame, pending, terminal, tmux,
                 hasServerCache, metaFile, hooksBuffer, budget, scroll, ps,
                 now, statsCache, spawned>>

RenderNext == RenderAgain

SpecRender == RenderInit /\ [][RenderNext]_vars

----------------------------------------------------------------------------
\* The two-column layout: renderTwoColumn 520-552 applied to one line of the
\* sessions panel and one line of the hooks panel.  A line is a sequence of
\* UTF-16 code units: the visible characters "x" and "y", and the style
\* escape ESC [ 1 m written as the four units "esc", "[", "1", "m".

MaxLeftSegments == 5
MaxRightSegments == 2
TermWidths == {7, 8}

Segments == {<<"x">>, <<"y">>, <<"esc", "[", "1", "m">>}

\* the lines the panels produce: text with complete escape sequences
LinesUpTo(n) ==
  {ConcatAll(segs) : segs \in UNION {[1..k -> Segments] : k \in 0..n}}

\* the end of ESC [ digits m starting at s[1], or 0 when s does not start so
EscapeEnd(s) ==
  IF Len(s) >= 3 /\ s[1] = "esc" /\ s[2] = "["
  THEN LET ends == {k \in 3..Len(s) :
                      s[k] = "m" /\ \A j \in 3..(k - 1) : s[j] \in {"1", ";"}}
       IN IF ends = {} THEN 0 ELSE CHOOSE k \in ends : \A l \in ends : k <= l
  ELSE 0

RECURSIVE stripAnsi(_)
\* renderTwoColumn 536-537: replace(/\x1b\[[0-9;]*m/g, "")
stripAnsi(s) ==
  IF s = <<>> THEN <<>>
  ELSE IF EscapeEnd(s) > 0 THEN stripAnsi(SubSeq(s, EscapeEnd(s) + 1, Len(s)))
  ELSE <<Head(s)>> \o stripAnsi(Tail(s))

\* String.prototype.slice(0, n): a negative n counts from the end
sliceTo(s, n) == SubSeq(s, 1, IF n < 0 THEN Max(Len(s) + n, 0) ELSE Min(n, Len(s)))

\* renderTwoColumn 521-523
leftWidthOf(termWidth) == (termWidth * 55) \div 100
rightWidthOf(termWidth) == termWidth - leftWidthOf(termWidth) - 3

\* renderTwoColumn 540-546: the two cells of one row
renderTwoColumn(termWidth, left, right) ==
  LET leftWidth == leftWidthOf(termWidth)
      rightWidth == rightWidthOf(termWidth)
      leftPlain == stripAnsi(left)
      rightPlain == stripAnsi(right)
  IN [left |-> IF Len(leftPlain) > leftWidth
               THEN sliceTo(left, leftWidth - 1) \o <<"ellipsis">>
               ELSE left \o [i \in 1..Max(0, leftWidth - Len(leftPlain)) |-> " "],
      right |-> IF Len(rightPlain) > rightWidth
                THEN sliceTo(right, rightWidth - 1) \o <<"ellipsis">>
                ELSE right]

TwoColumnInit ==
  /\ mode = "interactive"
  /\ state = InitState(KeysFlags)
  /\ budget = [keys |-> 0, tmux |-> 0, hooks |-> 0]
  /\ needsRefresh = FALSE
  /\ loopPc = "gather"
  /\ gather = NoGather
  /\ frame = NoFrame
  /\ pending = {}
  /\ terminal = [raw |-> TRUE, cursorHidden |-> TRUE]
  /\ tmux = [id \in SessionIds |-> "live"]
  /\ hasServerCache = "yes"
  /\ metaFile = InitMetaFile
  /\ hooksBuffer = <<>>
  /\ hist = <<>>
  /\ scroll = NoScroll
  /\ NoProcessCalls
  /\ \E termWidth \in TermWidths, left \in LinesUpTo(MaxLeftSegments),
        right \in LinesUpTo(MaxRightSegments) :
       ps = [termWidth |-> termWidth, left |-> left, right |-> right]

\* renderDisplay 1011-1013 lays the two panels side by side
TwoColumnRow ==
  /\ hist = <<>>
  /\ hist' = <<renderTwoColumn(ps.termWidth, ps.left, ps.right)>>
  /\ UNCHANGED <<state, needsRefresh, loopPc, mode, gather, frame, pending, terminal,
                 tmux, hasServerCache, metaFile, hooksBuffer, budget, scroll, ps,
                 now, statsCache, spawned>>

TwoColumnNext == TwoColumnRow

SpecTwoColumn == TwoColumnInit /\ [][TwoColumnNext]_vars

----------------------------------------------------------------------------
\* Cycling: the S and R keys (1510-1518) pressed in normal mode, from any
\* start-up sort mode (--sort, validated by parseSortMode 1686-1691) and any
\* start-up interval (--interval, parseInt at 1697, not validated).
\* ps counts the presses of each key.

MaxCyclePresses == 5

StartIntervals == {250, 1000, 2000, 3000, 5000, 10000, 60000}

CycleInit ==
  /\ mode = "interactive"
  /\ budget = [keys |-> MaxCyclePresses, tmux |-> 0, hooks |-> 0]
  /\ needsRefresh = TRUE
  /\ loopPc = "list"
  /\ gather = NoGather
  /\ frame = NoFrame
  /\ pending = {}
  /\ terminal = [raw |-> TRUE, cursorHidden |-> TRUE]
  /\ tmux = [id \in SessionIds |-> "live"]
  /\ hasServerCache = "none"
  /\ metaFile = InitMetaFile
  /\ hooksBuffer = <<>>
  /\ hist = [inflight |-> 1, raised |-> FALSE]
  /\ scroll = NoScroll
  /\ NoProcessCalls
  /\ \E sortBy \in SeqRange(SortModes), intervalMs \in StartIntervals :
       /\ state = [InitState(KeysFlags) EXCEPT !.sortBy = sortBy, !.intervalMs = intervalMs]
       /\ ps = [sortBy |-> sortBy, intervalMs |-> intervalMs, S |-> 0, R |-> 0]

\* the stdin handler for one S or R key: no await, the handler runs to its end
CyclePress ==
  /\ budget.keys > 0
  /\ \E key \in {"S", "R"} :
       LET r == HandleKey(state, key, hooksBuffer)
       IN /\ state' = r.st
          /\ IF r.refresh THEN RequestRefresh ELSE UNCHANGED <<needsRefresh, hist>>
          /\ ps' = [ps EXCEPT ![key] = @ + 1]
  /\ budget' = [budget EXCEPT !.keys = @ - 1]
  /\ UNCHANGED <<loopPc, mode, gather, frame, pending, terminal, tmux, hasServerCache,
                 metaFile, hooksBuffer, scroll, now, statsCache, spawned>>

CycleKeysNext == CyclePress

SpecCycle == CycleInit /\ [][CycleKeysNext]_vars

----------------------------------------------------------------------------
\* Session metadata: lib/sessions.ts buildSessionMetaMap applied to the
\* entries read from sessions.jsonl, in file order.  An entry is
\* [id, sessionName, status]; its id is its line number.

MaxMetaEntries == 4

MetaNames == {"awm-claude-abc", "awm-codex-def"}
MetaStatuses == {"running", "done"}

\* Map.prototype.set
MapSet(map, key, value) ==
  [k \in DOMAIN map \cup {key} |-> IF k = key THEN value ELSE map[k]]

RECURSIVE MapOf(_, _)
MapOf(entries, map) ==
  IF entries = <<>> THEN map
  ELSE MapOf(Tail(entries), MapSet(map, Head(entries).sessionName, Head(entries)))

RECURSIVE MapOfFirst(_, _)
MapOfFirst(entries, map) ==
  IF entries = <<>> THEN map
  ELSE MapOfFirst(Tail(entries),
                  IF Head(entries).sessionName \in DOMAIN map THEN map
                  ELSE MapSet(map, Head(entries).sessionName, Head(entries)))

\* a map that keeps the first entry of each session name
buildSessionMetaMapFirstWins(entries) == MapOfFirst(entries, <<>>)

\* lib/sessions.ts buildSessionMetaMap 149-156
buildSessionMetaMap(entries) == MapOf(entries, <<>>)

MetaMapInit ==
  /\ mode = "interactive"
  /\ state = InitState(KeysFlags)
  /\ budget = [keys |-> 0, tmux |-> 0, hooks |-> 0]
  /\ needsRefresh = TRUE
  /\ loopPc = "meta"
  /\ gather = NoGather
  /\ frame = NoFrame
  /\ pending = {}
  /\ terminal = [raw |-> TRUE, cursorHidden |-> TRUE]
  /\ tmux = [id \in SessionIds |-> "live"]
  /\ hasServerCache = "yes"
  /\ metaFile = InitMetaFile
  /\ hooksBuffer = <<>>
  /\ hist = [inflight |-> 1, raised |-> FALSE]
  /\ scroll = NoScroll
  /\ NoProcessCalls
  /\ \E n \in 0..MaxMetaEntries :
       \E names \in [1..n -> MetaNames], statuses \in [1..n -> MetaStatuses] :
         ps = [entries |-> [i \in 1..n |-> [id |-> i, sessionName |-> names[i],
                                             status |-> statuses[i]]],
               built |-> FALSE, map |-> <<>>]

\* refreshState 1231-1232: state.sessionMeta = buildSessionMetaMap(entries)
BuildMetaMap ==
  /\ ~ps.built
  /\ ps' = [ps EXCEPT !.built = TRUE, !.map = buildSessionMetaMap(ps.entries)]
  /\ UNCHANGED <<state, needsRefresh, loopPc, mode, gather, frame, pending, terminal,
                 tmux, hasServerCache, metaFile, hooksBuffer, budget, hist, scroll,
                 now, statsCache, spawned>>

MetaMapNext == BuildMetaMap

SpecMetaMap == MetaMapInit /\ [][MetaMapNext]_vars

----------------------------------------------------------------------------
\* orchestrate.ts main 599-682: the launch of a plan.  A plan is the task
\* sequence normalizeTasks 386-399 returns: ids and dependency lists as
\* given (ids are not checked for uniqueness, dependencies may name no task
\* or form a cycle).  ps holds the run: the plan, --wait, the launched map
\* (task id -> the task whose session it names), the completed and pending
\* id sets, the tmux session of each task, and the launch attempts per task.

MaxPlanTasks == 3

TaskIds == {"t1", "t2"}
DependencyLists == {{}, {"t1"}, {"t2"}, {"t1", "t2"}, {"t9"}}

Plans ==
  UNION {[1..n -> [id : TaskIds, dependencies : DependencyLists]] : n \in 1..MaxPlanTasks}

\* main 599-605
Independent(plan) == {i \in DOMAIN plan : plan[i].dependencies = {}}
Dependent(plan) == {i \in DOMAIN plan : plan[i].dependencies # {}}

OrchInit ==
  /\ mode = "once"
  /\ state = InitState(NoHooksFlags)
  /\ budget = [keys |-> 0, tmux |-> 0, hooks |-> 0]
  /\ needsRefresh = FALSE
  /\ loopPc = "done"
  /\ gather = NoGather
  /\ frame = NoFrame
  /\ pending = {}
  /\ terminal = [raw |-> FALSE, cursorHidden |-> FALSE]
  /\ tmux = [id \in SessionIds |-> "absent"]
  /\ hasServerCache = "none"
  /\ metaFile = InitMetaFile
  /\ hooksBuffer = <<>>
  /\ hist = [inflight |-> 0, raised |-> FALSE]
  /\ scroll = NoScroll
  /\ NoProcessCalls
  /\ \E plan \in Plans, waitForDeps \in BOOLEAN :
       ps = [plan |-> plan, waitForDeps |-> waitForDeps, pc |-> "start",
             launched |-> <<>>, completed |-> {}, pending |-> {},
             session |-> [i \in DOMAIN plan |-> "none"],
             attempts |-> [i \in DOMAIN plan |-> 0]]

\* launchSubTask 435-462 for task i: launchAgentSession creates the session
\* or throws; run is the record of the run so far
LaunchTask(run, i, ok) ==
  [run EXCEPT !.attempts[i] = @ + 1,
              !.session[i] = IF ok THEN "running" ELSE "failed",
              !.launched = IF ok THEN MapSet(@, run.plan[i].id, i) ELSE @]

RECURSIVE LaunchAll(_, _, _)
\* 617-631: the results of Promise.allSettled, recorded in task order
LaunchAll(run, i, ok) ==
  IF i > Len(run.plan) THEN run
  ELSE LaunchAll(IF i \in Independent(run.plan) THEN LaunchTask(run, i, ok[i]) ELSE run,
                 i + 1, ok)

\* 617-645 and 672-678: the independent tasks are launched; the wait loop is
\* entered only with --wait and at least one dependent task
LaunchIndependent ==
  /\ ps.pc = "start"
  /\ \E ok \in [DOMAIN ps.plan -> BOOLEAN] :
       LET run == LaunchAll(ps, 1, ok)
           waits == Dependent(ps.plan) # {} /\ ps.waitForDeps
       IN ps' = [run EXCEPT !.pc = IF waits THEN "wait" ELSE "done",
                            !.pending = IF waits
                                        THEN {ps.plan[i].id : i \in Dependent(ps.plan)}
                                        ELSE {}]
  /\ UNCHANGED <<state, needsRefresh, loopPc, mode, gather, frame, pending, terminal,
                 tmux, hasServerCache, metaFile, hooksBuffer, budget, hist, scroll,
                 now, statsCache, spawned>>

\* 648-657: hasSession for every launched task not yet completed
CompletedNow(run) ==
  run.completed \cup {id \in DOMAIN run.launched :
                        run.session[run.launched[id]] = "ended"}

RECURSIVE LaunchReadyRetriesFailed(_, _, _)
\* a wait loop that keeps a task pending when its first launch failed
LaunchReadyRetriesFailed(run, i, ok) ==
  IF i > Len(run.plan) THEN run
  ELSE LET task == run.plan[i]
           ready == /\ i \in Dependent(run.plan)
                    /\ task.id \in run.pending
                    /\ task.dependencies \subseteq run.completed
           leaves == ok[i] \/ run.attempts[i] >= 1
       IN LaunchReadyRetriesFailed(
            IF ready
            THEN LaunchTask([run EXCEPT !.pending = IF leaves THEN @ \ {task.id} ELSE @],
                            i, ok[i])
            ELSE run,
            i + 1, ok)

RECURSIVE LaunchReady(_, _, _)
\* 659-676: the dependent tasks in plan order
LaunchReady(run, i, ok) ==
  IF i > Len(run.plan) THEN run
  ELSE LET task == run.plan[i]
           ready == /\ i \in Dependent(run.plan)
                    /\ task.id \in run.pending
                    /\ task.dependencies \subseteq run.completed
       IN LaunchReady(IF ready
                      THEN LaunchTask([run EXCEPT !.pending = @ \ {task.id}], i, ok[i])
                      ELSE run,
                      i + 1, ok)

\* 646-682: one iteration of the wait loop
WaitPass ==
  /\ ps.pc = "wait"
  /\ \E ok \in [DOMAIN ps.plan -> BOOLEAN] :
       LET run == LaunchReady([ps EXCEPT !.completed = CompletedNow(ps)], 1, ok)
       IN ps' = [run EXCEPT !.pc = IF run.pending = {} THEN "done" ELSE "wait"]
  /\ UNCHANGED <<state, needsRefresh, loopPc, mode, gather, frame, pending, terminal,
                 tmux, hasServerCache, metaFile, hooksBuffer, budget, hist, scroll,
                 now, statsCache, spawned>>

\* the agent of task i finishes and its tmux session ends
SessionEnds(i) ==
  /\ ps.session[i] = "running"
  /\ ps' = [ps EXCEPT !.session[i] = "ended"]
  /\ UNCHANGED <<state, needsRefresh, loopPc, mode, gather, frame, pending, terminal,
                 tmux, hasServerCache, metaFile, hooksBuffer, budget, hist, scroll,
                 now, statsCache, spawned>>

SomeSessionEnds == \E i \in DOMAIN ps.plan : SessionEnds(i)

OrchNext ==
  \/ LaunchIndependent
  \/ WaitPass
  \/ SomeSessionEnds

SpecOrch == OrchInit /\ [][OrchNext]_vars

\* every launched session eventually ends, and the orchestrator keeps
\* running (its loop polls every POLL_INTERVAL_MS)
SpecOrchFair ==
  /\ SpecOrch
  /\ WF_vars(LaunchIndependent)
  /\ WF_vars(WaitPass)
  /\ WF_vars(SomeSessionEnds)

----------------------------------------------------------------------------
\* markSessionDone (lib/sessions.ts) against a tmux server and the metadata
\* file. A session name is the sequence of its "-"-separated segments, so
\* <<"a", "done">> is "a-done"; "ts" is Date.now().toString(36).

MaxMarks == 2

DoneNames == {<<"a">>, <<"b">>, <<"a", "done">>}

endsWithDone(name) == Len(name) > 1 /\ name[Len(name)] = "done"

\* the sessions the D key can be pressed on: the ones of the last listing,
\* which may have ended since
MarkTargets(run) == run.sessions \cup DoneNames

DoneInit ==
  /\ state = InitState(NoHooksFlags)
  /\ needsRefresh = FALSE
  /\ loopPc = "idle"
  /\ mode = "interactive"
  /\ gather = NoGather
  /\ frame = NoFrame
  /\ pending = {}
  /\ terminal = [raw |-> TRUE]
  /\ tmux = [i \in SessionIds |-> "live"]
  /\ hasServerCache = NoServerCache
  /\ metaFile = InitMetaFile
  /\ hooksBuffer = <<>>
  /\ budget = [keys |-> 0, ticks |-> 0, changes |-> 0, hooks |-> 0]
  /\ hist = [inflight |-> 0, raised |-> FALSE]
  /\ scroll = NoScroll
  /\ now = 0
  /\ statsCache = NoStatsCache
  /\ NoProcessCalls
  /\ \E live \in (SUBSET DoneNames) \ {{}} :
       ps = [sessions |-> live, entries |-> <<>>, calls |-> 0,
             target |-> <<>>, before |-> [sessions |-> live, entries |-> <<>>],
             outcome |-> "none"]

\* one call of markSessionDone(dataDir, sessionName, existingMeta).
\* hasOk, renameOk: the tmux command could be spawned and was not refused for
\* a reason outside the model; appendOk: the append to sessions.jsonl worked.
markSessionDone(run, sessionName, hasOk, renameOk, appendOk) ==
  LET renames == ~endsWithDone(sessionName)
      plain == sessionName \o <<"done">>
      newName == IF ~renames THEN sessionName
                 ELSE IF plain \in run.sessions THEN plain \o <<"ts">> ELSE plain
      renamed == /\ renames /\ hasOk /\ renameOk
                 /\ sessionName \in run.sessions
                 /\ newName \notin run.sessions
      appends == IF renames THEN renamed ELSE TRUE
      entry == [sessionName |-> newName, status |-> "done",
                renamedFrom |-> IF renames THEN sessionName ELSE <<>>]
  IN [run EXCEPT
        !.sessions = IF renamed THEN (@ \ {sessionName}) \cup {newName} ELSE @,
        !.entries = IF appends /\ appendOk THEN Append(@, entry) ELSE @,
        !.calls = @ + 1,
        !.target = sessionName,
        !.before = [sessions |-> run.sessions, entries |-> run.entries],
        !.outcome = CASE renames /\ ~hasOk -> "thrown"
                      [] renames /\ ~renamed -> "null"
                      [] ~appendOk -> "thrown"
                      [] OTHER -> "returned"]

MarkDone ==
  /\ ps.calls < MaxMarks
  /\ \E sessionName \in MarkTargets(ps), hasOk, renameOk, appendOk \in BOOLEAN :
       ps' = markSessionDone(ps, sessionName, hasOk, renameOk, appendOk)
  /\ UNCHANGED <<state, needsRefresh, loopPc, mode, gather, frame, pending, terminal,
                 tmux, hasServerCache, metaFile, hooksBuffer, budget, hist, scroll,
                 now, statsCache, spawned>>

DoneNext == MarkDone

SpecDone == DoneInit /\ [][DoneNext]_vars

----------------------------------------------------------------------------
\* The refresh loop with the list and the selection each frame was rendered
\* from, and the keys that act on the selected session.

MaxActKeys == 2

\* renderSessions 655-799 lays out st.visibleSessions and marks the session
\* at st.selectedIndex
ShownFrame(st, kind) ==
  [kind |-> kind, torn |-> {}, sessions |-> st.visibleSessions,
   selectedIndex |-> st.selectedIndex]

ActInit ==
  /\ Start({"interactive"}, {NoHooksFlags}, MaxActKeys)
  /\ scroll = NoScroll
  /\ ps = InitPs
  /\ NoProcessCalls

\* refreshState 1231-1238 once readSessionMeta has answered, then
\* renderDisplay up to its first await or, if it has none, to the end
ActMetaResolve ==
  /\ loopPc = "meta"
  /\ \E readOk \in BOOLEAN, statsCached \in BOOLEAN :
       LET st0 == [state EXCEPT !.sessionMeta = IF readOk THEN metaFile
                                                ELSE [n \in Names |-> NoMeta]]
           st1 == [st0 EXCEPT !.selectedIndex = ClampSelection(st0)]
           g   == CollectPaneData(st1)
           suspends == \/ g.paneTargets # {}
                       \/ g.panePids # {} /\ ~statsCached
                       \/ g.pidsNeedingDetection # {}
       IN IF ModalKind(st1) # "none"
          THEN WriteFrame(st1, ShownFrame(st1, ModalKind(st1)))
          ELSE IF suspends
          THEN /\ state' = st1
               /\ gather' = g
               /\ loopPc' = "gather"
               /\ UNCHANGED <<needsRefresh, frame, terminal, hist>>
          ELSE LET r == renderSessions(st1, {}, {}, maxSessionLines(g.showHooks))
               IN WriteFrame(r.st, ShownFrame(r.st, "panels"))
  /\ UNCHANGED <<mode, pending, tmux, hasServerCache, metaFile, hooksBuffer, budget,
                 scroll, ps, now, statsCache, spawned>>

\* renderDisplay 1003-1021 once Promise.all has answered
ActGatherResolve ==
  /\ loopPc = "gather"
  /\ LET captured == capturePanes(gather.paneTargets, tmux)
         detected == DetectedPids(gather.pidsNeedingDetection, tmux)
         r == renderSessions(state, captured, detected, maxSessionLines(gather.showHooks))
     IN WriteFrame(r.st, ShownFrame(r.st, "panels"))
  /\ UNCHANGED <<mode, pending, tmux, hasServerCache, metaFile, hooksBuffer, budget,
                 scroll, ps, now, statsCache, spawned>>

\* the keys that move the selection or act on the selected session
ActKeys == {"j", "k", "x", "enter", "D"}
ActKeyEvent == KeyFrom(ActKeys)

ActNext ==
  \/ LoopOnRequest
  \/ LoopOnInterval
  \/ ListResolve
  \/ ActMetaResolve
  \/ ActGatherResolve
  \/ TmuxChange
  \/ ActKeyEvent
  \/ AttachReturns
  \/ KillReturns
  \/ MarkDoneReturns

SpecActs == ActInit /\ [][ActNext]_vars

----------------------------------------------------------------------------
\* The events panel: the key handler and the hooks server on one ViewState.
\* A hook entry is its id; ids grow in the order of arrival.

MaxPanelHooks == 16   \* entries of hooks.jsonl loaded at start-up
MaxHookPosts == 2     \* events posted to the hooks server per run
HOOK_ROWS == 15       \* renderHooks: reversed.slice(0, 15)

PanelHookCounts == {0, 1, MaxPanelHooks}
PanelKeys == {"tab", "j", "k", "enter", "q", "h", "esc"}

\* renderHooks 819-836: the rows of the events panel, most recent first
HookRows(recentHooks) ==
  LET n == Min(HOOK_ROWS, Len(recentHooks))
  IN [i \in 1..n |-> recentHooks[Len(recentHooks) - i + 1]]

\* renderHookDetail 841-847: the entry the detail view shows (0: "No hook
\* selected")
DetailHook(st, recentHooks) ==
  IF st.selectedHookIndex < Len(recentHooks)
  THEN recentHooks[Len(recentHooks) - st.selectedHookIndex]
  ELSE 0

\* main 1684-1744: hooks.jsonl is loaded into the buffer when the server is on
PanelInit ==
  /\ mode = "interactive"
  /\ \E fl \in {KeysFlags, NoHooksFlags}, n \in PanelHookCounts :
       /\ state = InitState(fl)
       /\ hooksBuffer = IF fl.hooks THEN [i \in 1..n |-> i] ELSE <<>>
  /\ budget = [keys |-> 0, tmux |-> 0, hooks |-> MaxHookPosts]
  /\ needsRefresh = TRUE
  /\ loopPc = "sleep"
  /\ gather = NoGather
  /\ frame = NoFrame
  /\ pending = {}
  /\ terminal = [raw |-> TRUE, cursorHidden |-> TRUE]
  /\ tmux = [id \in SessionIds |-> "absent"]
  /\ hasServerCache = "none"
  /\ metaFile = InitMetaFile
  /\ hist = [inflight |-> 0, raised |-> FALSE]
  /\ scroll = NoScroll
  /\ ps = [opened |-> 0]
  /\ NoProcessCalls

\* process.stdin.on("data", ...) 1256-1536 for a key that ends in the handler
PanelKey ==
  /\ \E key \in PanelKeys :
       LET r == HandleKey(state, key, hooksBuffer)
       IN /\ r.effect = "none"
          /\ WithinBounds(state, key)
          /\ state' = r.st
          /\ ps' = [opened |-> IF ~r.st.showHookDetail THEN 0
                               ELSE IF state.showHookDetail THEN ps.opened
                               ELSE DetailHook(r.st, hooksBuffer)]
          /\ needsRefresh' = (needsRefresh \/ r.refresh)
  /\ UNCHANGED <<loopPc, mode, gather, frame, pending, terminal, tmux, hasServerCache,
                 metaFile, hooksBuffer, budget, hist, scroll, now, statsCache, spawned>>

\* createHooksApp handleHook 1045-1055
HookPosted ==
  /\ state.hooksEnabled
  /\ budget.hooks > 0
  /\ hooksBuffer' = addHookToBuffer(hooksBuffer, Len(hooksBuffer) + 1)
  /\ budget' = [budget EXCEPT !.hooks = @ - 1]
  /\ UNCHANGED <<state, needsRefresh, loopPc, mode, gather, frame, pending, terminal,
                 tmux, hasServerCache, metaFile, hist, scroll, ps, now, statsCache, spawned>>

PanelNext == PanelKey \/ HookPosted

SpecPanel == PanelInit /\ [][PanelNext]_vars

----------------------------------------------------------------------------
\* The template editor: the keys that open it, edit in it and leave it, with
\* the two templates as they were when it was opened.

MaxTemplateKeys == 6

TemplateKeys == {"T", "tab", "enter", "ctrlR", "esc", "q", "backspace"}

\* the templates notifications are formatted with (515-517, notify.ts)
EffectiveTemplates(st) ==
  [title |-> OrDefault(st.titleTemplate, DEFAULT_TITLE_TEMPLATE),
   message |-> OrDefault(st.messageTemplate, DEFAULT_MESSAGE_TEMPLATE)]

TemplateInit ==
  /\ mode = "interactive"
  /\ state = InitState(KeysFlags)
  /\ hooksBuffer = <<>>
  /\ budget = [keys |-> MaxTemplateKeys, tmux |-> 0, hooks |-> 0]
  /\ needsRefresh = TRUE
  /\ loopPc = "sleep"
  /\ gather = NoGather
  /\ frame = NoFrame
  /\ pending = {}
  /\ terminal = [raw |-> TRUE, cursorHidden |-> TRUE]
  /\ tmux = [id \in SessionIds |-> "absent"]
  /\ hasServerCache = "none"
  /\ metaFile = InitMetaFile
  /\ hist = [inflight |-> 0, raised |-> FALSE]
  /\ scroll = NoScroll
  /\ ps = [atOpen |-> EffectiveTemplates(InitState(KeysFlags)), closedBy |-> "none"]
  /\ NoProcessCalls

\* process.stdin.on("data", ...) 1256-1536 for a key that ends in the handler
TemplateKey ==
  /\ budget.keys > 0
  /\ budget' = [budget EXCEPT !.keys = @ - 1]
  /\ \E key \in TemplateKeys :
       LET r == HandleKey(state, key, hooksBuffer)
           opens == ~state.showTemplateEditor /\ r.st.showTemplateEditor
           closes == state.showTemplateEditor /\ ~r.st.showTemplateEditor
       IN /\ r.effect = "none"
          /\ WithinBounds(state, key)
          /\ state' = r.st
          /\ ps' = IF opens THEN [atOpen |-> EffectiveTemplates(state), closedBy |-> "none"]
                   ELSE IF closes THEN [ps EXCEPT !.closedBy = key]
                   ELSE ps
          /\ needsRefresh' = (needsRefresh \/ r.refresh)
  /\ UNCHANGED <<loopPc, mode, gather, frame, pending, terminal, tmux, hasServerCache,
                 metaFile, hooksBuffer, hist, scroll, now, statsCache, spawned>>

TemplateNext == TemplateKey

SpecTemplate == TemplateInit /\ [][TemplateNext]_vars

----------------------------------------------------------------------------
\* The two scrolling views: the detailed help and the event detail, with the
\* terminal height and the payload of the one event in the buffer.

DETAILED_HELP_LINES == 164   \* allLines of renderDetailedHelp: 3 + the ten sections
ViewHeights == {166, 167, 168}
PayloadLineCounts == {1, 156, 157}
ViewKeys == {"?", "d", "tab", "enter", "j", "k", "q", "esc"}

\* renderDetailedHelp 395, 410-413: the greatest offset the view can show
helpMaxOffset(termHeight) == Max(0, DETAILED_HELP_LINES - (termHeight - 4))

\* renderHookDetail 869-870
hookMaxOffset(termHeight, payloadLines) == Max(0, payloadLines - (termHeight - 12))

\* the offset the view is drawn at
helpShownOffset(st, termHeight) == Min(st.detailedHelpScrollOffset, helpMaxOffset(termHeight))
hookShownOffset(st, termHeight, payloadLines) ==
  Min(st.hookScrollOffset, hookMaxOffset(termHeight, payloadLines))

ViewsInit ==
  /\ mode = "interactive"
  /\ state = InitState(KeysFlags)
  /\ hooksBuffer = <<1>>
  /\ budget = [keys |-> 0, tmux |-> 0, hooks |-> 0]
  /\ needsRefresh = TRUE
  /\ loopPc = "sleep"
  /\ gather = NoGather
  /\ frame = NoFrame
  /\ pending = {}
  /\ terminal = [raw |-> TRUE, cursorHidden |-> TRUE]
  /\ tmux = [id \in SessionIds |-> "absent"]
  /\ hasServerCache = "none"
  /\ metaFile = InitMetaFile
  /\ hist = [inflight |-> 0, raised |-> FALSE]
  /\ scroll = NoScroll
  /\ \E h \in ViewHeights, p \in PayloadLineCounts :
       ps = [termHeight |-> h, payloadLines |-> p]
  /\ NoProcessCalls

\* process.stdin.on("data", ...) 1256-1536 for a key that ends in the handler
ViewKey ==
  /\ \E key \in ViewKeys :
       LET r == HandleKey(state, key, hooksBuffer)
       IN /\ r.effect = "none"
          /\ WithinBounds(state, key)
          /\ state' = r.st
          /\ needsRefresh' = (needsRefresh \/ r.refresh)
  /\ UNCHANGED <<loopPc, mode, gather, frame, pending, terminal, tmux, hasServerCache,
                 metaFile, hooksBuffer, budget, hist, scroll, ps, now, statsCache, spawned>>

ViewsNext == ViewKey

SpecViews == ViewsInit /\ [][ViewsNext]_vars

----------------------------------------------------------------------------
\* Properties of the refresh loop (checked under Spec)

\* a key event was handled / a refresh wrote its frame in this step
KeyHandled == budget'.keys < budget.keys
RefreshCompleted == hist'.inflight < hist.inflight

\* C1: a refresh request raised while a refresh is in progress is not lost:
\* when the in-flight refresh has written its frame and the loop sleeps, the
\* request is still pending (needsRefresh), so the next iteration refreshes
\* again without waiting for the interval.
C1_RequestRaisedInFlightSurvives ==
  (loopPc = "sleep" /\ hist.raised) => needsRefresh

\* a request is raised while the refresh is suspended in renderDisplay
C1_RequestRaisedInFlight == loopPc = "gather" /\ hist.raised /\ needsRefresh

\* C2: every frame is composed from one ViewState: the selectedIndex,
\* expandAll, agentsOnly, showStats, showLastLine and visibleSessions that
\* renderDisplay gathered pane data for equal those renderSessions laid out.
C2_FrameFromOneViewState == frame.torn = {}

\* a key event is handled while renderDisplay awaits its Promise.all
C2_KeyDuringGather == loopPc = "gather" /\ ViewSnapshot(state) # gather.view

\* C3: at most one refresh is in flight at any time, and the loop is
\* suspended in a refresh only while exactly one is in flight.
C3_OneRefreshInFlight ==
  /\ hist.inflight \in {0, 1}
  /\ InFlight => hist.inflight = 1
  /\ loopPc \in {"sleep", "done"} => hist.inflight = 0

\* a key event asked for a refresh while one was in flight, and the loop has
\* since started the next one
C3_RequestsDuringRefresh ==
  /\ InFlight /\ hist.inflight = 1
  /\ frame.kind # "none"
  /\ budget.keys < MaxLoopKeys

SelectionInRange(st) ==
  IF Len(st.visibleSessions) > 0
  THEN st.selectedIndex \in 0..(Len(st.visibleSessions) - 1)
  ELSE st.selectedIndex = 0

\* C4: after every refresh and after every key event selectedIndex is within
\* [0, len(visibleSessions)-1], and is 0 when visibleSessions is empty.
C4_SelectedIndexInRange ==
  [][(KeyHandled \/ RefreshCompleted) => SelectionInRange(state')]_vars

\* the session list shrank below the selection and the clamp has not run yet
C4_ListShrankBelowSelection ==
  /\ loopPc = "meta"
  /\ state.selectedIndex >= Len(state.visibleSessions)
  /\ state.selectedIndex > 0

----------------------------------------------------------------------------
\* Properties of the key handler (checked under SpecKeys)

ModalFlags ==
  {"showHelp", "showDetailedHelp", "showFilterPopup", "showTemplateEditor",
   "showHookDetail"}
OpenModals(st) == {m \in ModalFlags : st[m]}

\* C5: in every reachable ViewState at most one of showHelp,
\* showDetailedHelp, showFilterPopup, showTemplateEditor and showHookDetail is
\* true, also for keys handled while attach, kill or mark-done is awaited.
C5_AtMostOneModal == Cardinality(OpenModals(state)) <= 1

\* a modal was opened by a key handled while a collaborator call is awaited
C5_ModalWhileCallAwaited == pending # {} /\ AnyModal(state)

\* what navigation and the action keys act on
NavigationOf(st) ==
  [selectedIndex |-> st.selectedIndex, selectedHookIndex |-> st.selectedHookIndex,
   focusPanel |-> st.focusPanel, showLastLine |-> st.showLastLine,
   showStats |-> st.showStats, showHooks |-> st.showHooks,
   agentsOnly |-> st.agentsOnly, expandAll |-> st.expandAll,
   sortBy |-> st.sortBy, intervalMs |-> st.intervalMs]

\* C6: while a modal is active no key event changes selectedIndex,
\* selectedHookIndex, focusPanel, the display toggles, sortBy or intervalMs,
\* and none starts attach, kill or mark-done or quits.
C6_ModalKeysLeaveNavigation ==
  [][(KeyHandled /\ AnyModal(state)) =>
       /\ NavigationOf(state') = NavigationOf(state)
       /\ pending' = pending
       /\ loopPc' = loopPc
       /\ terminal' = terminal]_vars

\* a navigation key was handled inside the filter popup, with two sessions
\* listed and the second one selected
C6_NavigationKeyInPopup ==
  /\ state.showFilterPopup /\ state.filterPopupIndex > 0
  /\ Len(state.visibleSessions) > 1

\* one edge of the modal graph
ModalStep(from, to) ==
  \/ from = to
  \/ from = {} /\ to \in {{"showHelp"}, {"showFilterPopup"}, {"showTemplateEditor"},
                           {"showHookDetail"}}
  \/ from = {"showHelp"} /\ to = {"showDetailedHelp"}
  \/ from # {} /\ to = {}

\* C7: modal transitions follow the graph, one step per keystroke: Help,
\* FilterPopup, TemplateEditor and EventDetail are entered from Normal only,
\* DetailedHelp from Help only, and every close lands in Normal; nothing but
\* a key event changes the open modal.
C7_ModalGraph ==
  [][/\ ModalStep(OpenModals(state), OpenModals(state'))
     /\ (OpenModals(state') # OpenModals(state) => KeyHandled)]_vars

\* detailed help was opened from help and closed again with the third key
C7_DetailedHelpClosed ==
  /\ ~AnyModal(state)
  /\ budget.keys = MaxKeys - 3
  /\ frame.kind = "detailedHelp"

----------------------------------------------------------------------------
\* Properties of the sessions viewport (checked under SpecScroll)

Abs(x) == IF x < 0 THEN -x ELSE x
\* the content lines shown when the panel scrolls: two lines of the budget
\* are reserved for the "more" indicators (renderSessions 772)
VisibleLines(maxLines) == Max(1, maxLines - 2)
Scrolls == scroll.rendered /\ scroll.contentCount > scroll.maxLines
\* the offsets that are in bounds and show the selected line in a window of h lines
ValidOffsets(h) ==
  {o \in 0..Max(0, scroll.contentCount - h) :
     scroll.selectedLineIndex >= o /\ scroll.selectedLineIndex < o + h}

\* C8 (as stated): with H the line budget passed to renderSessions, after
\* rendering 0 <= scrollOffset <= max(0, L-H), and when L > H the selected
\* line lies in [scrollOffset, scrollOffset+H).
C8_OffsetWithinBudgetWindow ==
  scroll.rendered =>
    /\ scroll.offset >= 0
    /\ scroll.offset <= Max(0, scroll.contentCount - scroll.maxLines)
    /\ scroll.contentCount > scroll.maxLines =>
         /\ scroll.selectedLineIndex >= scroll.offset
         /\ scroll.selectedLineIndex < scroll.offset + scroll.maxLines

\* C8 (amended): content that fits the budget is shown from offset 0;
\* otherwise the window has H' = max(1, H-2) lines, 0 <= scrollOffset <= L-H'
\* and the selected line lies in [scrollOffset, scrollOffset+H').
C8_OffsetWithinVisibleWindow ==
  scroll.rendered =>
    IF scroll.contentCount <= scroll.maxLines THEN scroll.offset = 0
    ELSE /\ scroll.offset \in 0..(scroll.contentCount - VisibleLines(scroll.maxLines))
         /\ scroll.selectedLineIndex >= scroll.offset
         /\ scroll.selectedLineIndex < scroll.offset + VisibleLines(scroll.maxLines)

\* the panel scrolled to its last window with the last line selected
C8_ScrolledToEnd ==
  /\ Scrolls
  /\ scroll.maxLines = 10 /\ scroll.contentCount = 25 /\ scroll.selectedLineIndex = 24
  /\ scroll.offset = 17

\* C9 (as stated): with H the line budget, a selection below the window gives
\* offset selected-H+1, one above it gives offset selected, otherwise the
\* offset is unchanged; budget 10, 25 lines, selection 24, offset 0 gives 15.
C9_MinimalMoveInBudgetWindow ==
  Scrolls =>
    /\ scroll.selectedLineIndex >= scroll.prev + scroll.maxLines =>
         scroll.offset = scroll.selectedLineIndex - scroll.maxLines + 1
    /\ scroll.selectedLineIndex < scroll.prev => scroll.offset = scroll.selectedLineIndex
    /\ (/\ scroll.selectedLineIndex >= scroll.prev
        /\ scroll.selectedLineIndex < scroll.prev + scroll.maxLines) =>
         scroll.offset = scroll.prev
    /\ (/\ scroll.maxLines = 10 /\ scroll.contentCount = 25
        /\ scroll.selectedLineIndex = 24 /\ scroll.prev = 0) => scroll.offset = 15

\* C9 (amended): with the window of H' = max(1, H-2) lines the offset moves
\* to the valid offset nearest to the previous one: selected-H'+1 when the
\* selection is below the window, min(selected, L-H') when above, and
\* min(previous, L-H') otherwise; 25 lines, selection 24, offset 0 gives 17
\* for budget 10 and 15 for budget 12.
C9_MinimalMoveInVisibleWindow ==
  Scrolls =>
    LET h == VisibleLines(scroll.maxLines)
        last == scroll.contentCount - h
    IN /\ scroll.offset \in ValidOffsets(h)
       /\ \A o \in ValidOffsets(h) :
            Abs(scroll.offset - scroll.prev) <= Abs(o - scroll.prev)
       /\ scroll.selectedLineIndex >= scroll.prev + h =>
            scroll.offset = scroll.selectedLineIndex - h + 1
       /\ scroll.selectedLineIndex < scroll.prev =>
            scroll.offset = Min(scroll.selectedLineIndex, last)
       /\ (scroll.selectedLineIndex >= scroll.prev /\ scroll.selectedLineIndex < scroll.prev + h) =>
            scroll.offset = Min(scroll.prev, last)
       /\ (/\ scroll.contentCount = 25 /\ scroll.selectedLineIndex = 24
           /\ scroll.prev = 0) =>
            /\ scroll.maxLines = 10 => scroll.offset = 17
            /\ scroll.maxLines = 12 => scroll.offset = 15

\* the selection fell below the window and became its last visible line
C9_SelectionBecameLastVisible ==
  /\ Scrolls
  /\ scroll.maxLines = 12 /\ scroll.contentCount = 25 /\ scroll.selectedLineIndex = 24
  /\ scroll.prev = 0 /\ scroll.offset = 15

----------------------------------------------------------------------------
\* Properties of the process-stats aggregation (checked under SpecPs)

\* the pids of the listing that have pid among their ancestors
TransitiveDescendants(table, pid) ==
  LET par == [p \in {r.pid : r \in SeqRange(table)} |-> StatsOf(table, p).ppid]
  IN {q \in DOMAIN par : pid \in Ancestors(par, q, Cardinality(DOMAIN par))}

RECURSIVE SumOver(_, _, _)
\* the exact sum of one column over a set of pids
SumOver(table, pids, column) ==
  IF pids = {} THEN 0
  ELSE LET q == CHOOSE x \in pids : TRUE
       IN StatsOf(table, q)[column] + SumOver(table, pids \ {q}, column)

\* the same rows in every order
Reorderings(table) ==
  {[i \in DOMAIN table |-> table[ord[i]]] : ord \in Orderings(DOMAIN table)}

Family(table, pid) == {pid} \cup TransitiveDescendants(table, pid)

\* C10 (as stated): for every requested pid of an acyclic listing the result
\* holds the sum of cpu, mem and rss over the pid and all its transitive
\* descendants, and it is the same for every ordering of the rows.
C10_SumsForEveryOrdering ==
  ps.called =>
    /\ \A pid \in ps.requested \cap Pids :
         /\ pid \in DOMAIN ps.result
         /\ ps.result[pid].cpu = RoundFloat(SumOver(ps.table, Family(ps.table, pid), "cpu"))
         /\ ps.result[pid].memory = RoundFloat(SumOver(ps.table, Family(ps.table, pid), "mem"))
         /\ ps.result[pid].rss = SumOver(ps.table, Family(ps.table, pid), "rss")
    /\ \A other \in Reorderings(ps.table) :
         StatsFromListing(other, ps.requested) = ps.result

\* every partial sum of the column over the family is representable
SumsExactly(table, pid, column) ==
  SumOver(table, Family(table, pid), column) < 2 ^ MantissaBits

\* C10 (amended): the pids added up are the requested pid and each of its
\* transitive descendants exactly once, whatever the order of the rows; rss
\* is their exact sum and the same for every ordering; cpu and mem are
\* floating-point sums taken in row order, equal to the exact sum and the
\* same for every ordering when no addition rounds; pid 100 (1.0) with
\* children 101 (2.0) and 102 (3.0) yields 6.0.
C10_SumsUpToRounding ==
  ps.called =>
    \A pid \in ps.requested \cap Pids, other \in Reorderings(ps.table) :
      LET counted == <<pid>> \o getDescendantsFromTree(pid, other)
          here == ps.result[pid]
          there == StatsFromListing(other, ps.requested)[pid]
      IN /\ pid \in DOMAIN ps.result
         /\ SeqRange(counted) = Family(ps.table, pid)
         /\ Len(counted) = Cardinality(Family(ps.table, pid))
         /\ here.rss = SumOver(ps.table, Family(ps.table, pid), "rss")
         /\ there.rss = here.rss
         /\ SumsExactly(ps.table, pid, "cpu") =>
              /\ here.cpu = SumOver(ps.table, Family(ps.table, pid), "cpu")
              /\ there.cpu = here.cpu
         /\ SumsExactly(ps.table, pid, "mem") =>
              /\ here.memory = SumOver(ps.table, Family(ps.table, pid), "mem")
              /\ there.memory = here.memory

\* pid 100 (cpu 1) with children 101 (cpu 2) and 102 (cpu 3) was aggregated
C10_RootWithTwoChildren ==
  /\ ps.called
  /\ ps.requested = {100}
  /\ \A r \in SeqRange(ps.table) :
       /\ r.pid = 100 => r.ppid = OutsidePid /\ r.cpu = 1
       /\ r.pid = 101 => r.ppid = 100 /\ r.cpu = 2
       /\ r.pid = 102 => r.ppid = 100 /\ r.cpu = 3
  /\ ps.result[100].cpu = 6

----------------------------------------------------------------------------
\* Properties of the descendant walk (checked under SpecWalk)

\* a pid occurs at most once in a sequence of pids
AtMostOnce(pids) == \A i, j \in DOMAIN pids : pids[i] = pids[j] => i = j

\* the listing has a parent chain that returns to its start
HasCycle(table) ==
  ~Acyclic([p \in {r.pid : r \in SeqRange(table)} |-> StatsOf(table, p).ppid])

\* C11 (as stated): on every listing, one with a parent cycle or a process
\* that is its own parent included, the descendant walk of each requested pid
\* returns without exhausting the stack and is called on each pid at most
\* once.
C11_WalkVisitsEachPidOnce ==
  ps.called =>
    /\ ~ps.thrown
    /\ \A pid \in ps.requested : AtMostOnce(ps.walks[pid].calls)

\* pid 100 is its own parent and its stats were requested
C11_SelfParentRequested ==
  /\ ps.called
  /\ ps.caller = "getProcessStatsBatch"
  /\ ps.requested = {100}
  /\ StatsOf(ps.table, 100).ppid = 100
  /\ ps.thrown
  /\ ps.result = <<>>

----------------------------------------------------------------------------
\* Properties of the stats cache (checked under SpecCache)

\* this step is a call of the function with a non-empty pid list
CallOf(fn) ==
  /\ ps'.calls = ps.calls + 1
  /\ ps'.last.fn = fn
  /\ ps'.last.pids # {}

\* the TTL window opened by the last listing that was cached is still open
InTtlWindow == statsCache.valid /\ now < statsCache.timestamp + STATS_CACHE_TTL

\* C12: a getProcessStatsBatch call with a non-empty pid list made inside the
\* TTL window of the cached listing spawns no process listing, and one made
\* when no listing is cached or the window has expired spawns exactly one; so
\* two calls inside one window share one listing and the first call after
\* the window spawns the second.
C12_OneListingPerWindow ==
  [][CallOf("getProcessStatsBatch") =>
       IF InTtlWindow
       THEN spawned' = spawned
       ELSE spawned' = Append(spawned, [fn |-> "getProcessStatsBatch", at |-> now])]_vars

\* a listing at time 0, a call served from the cache, and after the window
\* a call that spawned the second listing
C12_SecondListingAfterExpiry ==
  /\ ps.calls = 3 /\ ps.hits = 1
  /\ Len(spawned) = 2
  /\ spawned[1] = [fn |-> "getProcessStatsBatch", at |-> 0]
  /\ spawned[2] = [fn |-> "getProcessStatsBatch", at |-> STATS_CACHE_TTL]
  /\ ps.last.fn = "getProcessStatsBatch" /\ ps.last.spawns

\* C13 (as stated): while the TTL window of a cached listing is open, no call
\* of getProcessStatsBatch or detectAgentsBatch spawns a process listing,
\* whatever pids it is given and however many calls fall inside the window.
C13_NoListingInsideWindow ==
  [][InTtlWindow => spawned' = spawned]_vars

\* one render: the stats call listed the processes at time 0 and the
\* detection call listed them again at the same time
C13_TwoListingsInOneRender ==
  /\ Len(spawned) = 2
  /\ spawned[1] = [fn |-> "getProcessStatsBatch", at |-> 0]
  /\ spawned[2] = [fn |-> "detectAgentsBatch", at |-> 0]
  /\ statsCache.valid /\ statsCache.timestamp = 0

\* C14 (as stated): a getProcessStatsBatch call served from the cache returns
\* for the requested pids what an uncached call over the cached listing would
\* return, whichever pids the earlier calls of the window requested.
C14_CachedEqualsUncached ==
  (ps.last.fn = "getProcessStatsBatch" /\ ps.last.hit) =>
    ps.last.result = StatsFromListing(ps.listing, ps.last.pids)

\* pid 102 is in the cached listing, and the call served from the cache
\* returned nothing for it
C14_ListedPidMissingFromCache ==
  /\ ps.last.fn = "getProcessStatsBatch" /\ ps.last.hit
  /\ ps.last.pids = {102}
  /\ HasStats(ps.listing, 102)
  /\ ps.last.result = <<>>

\* this step is a call that spawned a listing which ended with the outcome
SpawnEnded(outcome) ==
  /\ ps'.calls = ps.calls + 1
  /\ ps'.last.spawns
  /\ ps'.last.outcome = outcome

----------------------------------------------------------------------------
\* Properties of the agent resolution (checked under SpecAgent and SpecKeys)

\* the agent of the first pane of the session that the scan reported
LiveScan(session, detected, agentsOnly) ==
  LET reported == SelectSeq(FlatPanes(session, agentsOnly),
                            LAMBDA fp : fp.pane.panePid \in detected)
  IN IF reported = <<>> THEN "none" ELSE AgentOfPid(reported[1].pane.panePid)

\* C16: getSessionAgent answers meta.agent when it is present, whatever the
\* memo holds; else the memoized agent, whatever the scan reported, and the
\* memo entry is left as it was, also when the scan reported nothing; else
\* the result of the live scan.
C16_StrictPriority ==
  ps.last.fn = "getSessionAgent" =>
    LET call == ps.last
    IN /\ call.meta.agent # "none" => call.agent = call.meta.agent
       /\ (call.meta.agent = "none" /\ call.before # "none") =>
            /\ call.agent = call.before
            /\ state.agentCache[call.session] = call.before
       /\ (call.meta.agent = "none" /\ call.before = "none") =>
            call.agent = LiveScan(call.session, call.detected, call.agentsOnly)

\* session b was memoized as codex by an earlier poll; this poll has no
\* metadata agent and a scan that found nothing, and the answer is codex
C16_MemoAnswersWhenScanEmpty ==
  /\ ps.last.fn = "getSessionAgent"
  /\ ps.polls >= 2
  /\ ps.last.session = Name("b", FALSE)
  /\ ps.last.meta.agent = "none"
  /\ ps.last.before = "codex"
  /\ ps.last.detected = {}
  /\ ps.last.agent = "codex"

\* C17: an entry of agentCache, once set, is neither removed nor changed by
\* any later step of the run: a refresh, a render or a key event.
C17_MemoMonotonic ==
  [][\A n \in Names :
       state.agentCache[n] # "none" => state'.agentCache[n] = state.agentCache[n]]_vars

\* session b is memoized as codex, keys have been handled since the start,
\* and a later refresh is waiting for its pane data
C17_MemoizedAndRefreshedAgain ==
  /\ state.agentCache[Name("b", FALSE)] = "codex"
  /\ budget.keys < MaxKeys
  /\ loopPc = "gather"

----------------------------------------------------------------------------
\* Properties of the agent detection (checked under SpecDetect)

RECURSIVE DepthBelow(_, _, _)
\* the number of parent links from pid up to root
DepthBelow(table, root, pid) ==
  IF pid = root THEN 0 ELSE 1 + DepthBelow(table, root, StatsOf(table, pid).ppid)

\* the processes of the subtree of root that match a known agent
Matching(table, root) ==
  {pid \in Family(table, root) : AgentOfProcess(StatsOf(table, pid)) # "none"}

\* C18 (as stated): the root and its descendants are examined in
\* breadth-first order, every process at depth d before any at depth d+1,
\* and the first process that matches a known agent determines the result,
\* so the agent reported is that of a matching process nearest to the root.
C18_BreadthFirstFirstMatch ==
  ps.called =>
    /\ \A i, j \in DOMAIN ps.examined :
         i < j => DepthBelow(ps.table, RootPid, ps.examined[i])
                    <= DepthBelow(ps.table, RootPid, ps.examined[j])
    /\ RootPid \in DOMAIN ps.result =>
         \E pid \in Matching(ps.table, RootPid) :
           /\ ps.result[RootPid].agent = AgentOfProcess(StatsOf(ps.table, pid))
           /\ \A other \in Matching(ps.table, RootPid) :
                DepthBelow(ps.table, RootPid, pid) <= DepthBelow(ps.table, RootPid, other)

\* 200 has children 201 and 202; 203 under 201 runs a shell that runs Claude
\* as 204; 205 under 202 runs node /bin/codex.  Claude, three levels down,
\* is reported although codex is two levels down.
C18_DeeperAgentWins ==
  /\ ps.called
  /\ \A r \in SeqRange(ps.table) :
       /\ r.pid \in {201, 202} => r.ppid = 200
       /\ r.pid = 203 => r.ppid = 201
       /\ r.pid = 204 => r.ppid = 203 /\ r.comm = "Claude"
       /\ r.pid = 205 => r.ppid = 202 /\ r.comm = "node"
  /\ ps.examined = <<200, 201, 202, 203, 204, 205>>
  /\ ps.result[RootPid].agent = "claude"

----------------------------------------------------------------------------
\* Properties of listSessions (checked under SpecList)

\* the characters of the prefix are the first characters of the name
HasPrefix(name, prefix) ==
  /\ Len(prefix) <= Len(name)
  /\ \A i \in DOMAIN prefix : name[i] = prefix[i]

\* the names of s occur in t, in the same order
RECURSIVE IsSubsequence(_, _)
IsSubsequence(s, t) ==
  IF s = <<>> THEN TRUE
  ELSE IF t = <<>> THEN FALSE
  ELSE IF Head(s) = Head(t) THEN IsSubsequence(Tail(s), Tail(t))
  ELSE IsSubsequence(s, Tail(t))

\* C19: when the multiplexer has listed its sessions, listSessions(filter)
\* returns exactly the listed sessions whose name starts with the filter, in
\* the order of the listing, and every window and pane in the result belongs
\* to the returned session that holds it.
C19_ExactlyThePrefixedSessions ==
  (ps.called /\ ps.hasServer) =>
    LET names == [i \in DOMAIN ps.result |-> ps.result[i].name]
    IN /\ SeqRange(names) = {n \in SeqRange(ps.sessionOutput) : HasPrefix(n, ps.filter)}
       /\ IsSubsequence(names, ps.sessionOutput)
       /\ \A i \in DOMAIN ps.result :
            \A w \in SeqRange(ps.result[i].windowList) :
              /\ w.sessionName = names[i]
              /\ \A l \in SeqRange(w.panes) : l.sessionName = names[i]

\* awm-claude-a1, awm-codex-b2 and other-x listed, filter awm: the first two
\* are returned in that order, each with its window of two panes
C19_AwmExample ==
  /\ ps.called /\ ps.hasServer
  /\ ps.sessionOutput = <<AwmClaudeA1, AwmCodexB2, OtherX>>
  /\ ps.filter = <<"a", "w", "m">>
  /\ Len(ps.result) = 2
  /\ ps.result[1].name = AwmClaudeA1 /\ ps.result[2].name = AwmCodexB2
  /\ Len(ps.result[1].windowList) = 1 /\ Len(ps.result[1].windowList[1].panes) = 2

----------------------------------------------------------------------------
\* Properties of the session list over time (checked under SpecStale)

\* the last refresh began at least one poll interval after the last change
RefreshedAfterInterval ==
  /\ hist.refreshes > 0
  /\ hist.lastRefresh >= hist.changedAt + state.intervalMs

\* C20 (as stated): for every preset interval, once a refresh that began at
\* least one poll interval after the last change of the multiplexer's
\* sessions has ended, state.sessions is what the multiplexer holds, the
\* server having started or stopped included.
C20_FreshAfterOneInterval ==
  RefreshedAfterInterval => state.sessions = TmuxList(tmux)

\* interval 2000: the server was found absent at 0 and session a was created
\* right after; the refresh that began 2000 ms later still lists nothing
C20_StartedServerUnseen ==
  /\ state.intervalMs = 2000
  /\ hist.changedAt = 0 /\ hist.lastRefresh = 2000 /\ hist.refreshes = 2
  /\ tmux["a"] = "live"
  /\ hasServerCache = [valid |-> TRUE, value |-> FALSE, timestamp |-> 0]
  /\ state.sessions = <<>>

----------------------------------------------------------------------------
\* Properties of the hook buffer (checked under SpecBuffer)

\* C21: after any number of appends the buffer holds at most 100 entries,
\* and they are the most recent min(n, 100) of the n entries that arrived,
\* in arrival order; 150 appends to an empty buffer leave entries 51..150.
C21_MostRecentHundred ==
  LET n == ps.stored + ps.appended
      kept == Min(n, MAX_HOOKS_BUFFER)
  IN /\ Len(hooksBuffer) <= MAX_HOOKS_BUFFER
     /\ hooksBuffer = [i \in 1..kept |-> n - kept + i]

\* 150 entries were appended to an empty buffer
C21_HundredOfHundredFifty ==
  /\ ps.stored = 0 /\ ps.appended = 150
  /\ Len(hooksBuffer) = 100
  /\ hooksBuffer[1] = 51 /\ hooksBuffer[100] = 150

----------------------------------------------------------------------------
\* Properties of the run with failing collaborators (checked under SpecRun)

\* C22: the refresh loop survives any single collaborator failure: after a
\* session listing, pane capture, process listing, metadata read, kill,
\* rename or mark-done call has failed or thrown, the loop has not
\* terminated (it can still perform a later refresh).
C22_LoopSurvivesFailure ==
  ps.last # "none" => /\ loopPc # "crashed"
                      /\ (loopPc = "exited" => terminal.raw = FALSE)

\* a listing whose spawn threw has ended the interactive loop: the process is
\* still there, and no refresh will follow
C22_ListingThrowEndsLoop ==
  /\ mode = "interactive"
  /\ ps.last = "listThrows"
  /\ loopPc = "crashed"
  /\ ~ENABLED (LoopOnRequest \/ LoopOnInterval)

\* C23: when a kill or mark-done action issued from the key handler fails
\* (the call returns false / null or throws), one warning line is surfaced
\* and the loop continues with a forced refresh.
C23_FailureWarnsAndRefreshes ==
  [][ps'.failures > ps.failures
       => /\ ps'.warnings = ps.warnings + 1
          /\ needsRefresh'
          /\ loopPc' = loopPc]_vars

\* a kill that returned false went by without any warning
C23_KillFailedSilently ==
  /\ ps.last = "killFailed"
  /\ ps.warnings = 0
  /\ needsRefresh

\* C24: on every path by which the interactive watcher stops (SIGINT,
\* SIGTERM, the quit key, or a fatal error escaping the refresh loop) the
\* terminal is out of raw mode and the cursor is shown again once the
\* process has exited or the loop is abandoned.
C24_TerminalRestoredOnStop ==
  (mode = "interactive" /\ loopPc \in {"exited", "crashed"})
     => terminal = [raw |-> FALSE, cursorHidden |-> FALSE]

\* the loop was abandoned by an error while the terminal is raw and the
\* cursor hidden
C24_AbandonedInRawMode ==
  /\ mode = "interactive"
  /\ loopPc = "crashed"
  /\ pending = {}
  /\ terminal = [raw |-> TRUE, cursorHidden |-> TRUE]

\* C26: run with --once, the watcher performs exactly one refresh, writes
\* exactly one frame, installs no keyboard handling, and the process then
\* terminates: it never sleeps for a second cycle, never handles a key, and
\* once main has returned the process has exited.
C26_OnceThenTerminates ==
  mode = "once"
    => /\ loopPc \notin {"sleep", "serving"}
       /\ hist.inflight <= 1
       /\ (loopPc \in {"done", "serving"} => frame # NoFrame)
       /\ (frame # NoFrame => loopPc \in {"done", "exited", "serving"})
       /\ ~terminal.raw
       /\ budget.keys = MaxRunKeys

\* --once with the hooks server (the default): the one frame is written,
\* main has returned, and the process is still serving hooks
C26_OnceStillServing ==
  /\ mode = "once"
  /\ state.hooksEnabled
  /\ frame # NoFrame
  /\ loopPc = "serving"

----------------------------------------------------------------------------
\* Properties of the attach action (checked under SpecAttach)

\* an attach sub-process is running
Attaching == \E h \in pending : h.kind = "attach"
\* this step ends an attach: its handler resumes or is rejected
AttachEnded == \E h \in pending : h.kind = "attach" /\ h \notin pending'

\* C25: the attach action releases raw mode before the attach sub-process
\* starts, keeps it released until that sub-process exits, and afterwards
\* always re-enters raw mode, hides the cursor and requests a refresh.
C25_ReleasedForTheAttach ==
  /\ [](Attaching => ~terminal.raw)
  /\ [][AttachEnded => /\ terminal'.raw
                       /\ terminal'.cursorHidden
                       /\ needsRefresh']_vars

\* two attaches overlap: the first has returned and switched raw mode on
\* while the second sub-process still owns the terminal
C25_RawWhileAttached ==
  /\ Attaching
  /\ terminal.raw
  /\ ps.last = "none"

----------------------------------------------------------------------------
\* Properties of rendering twice (checked under SpecRender)

\* C27: rendering twice in succession with the same ViewState, session
\* snapshot, event buffer and process table yields the same frame, even
\* though the first render may write scrollOffset and the agent memo cache.
C27_SecondFrameEqualsFirst ==
  Len(hist) = 2 => hist[1] = hist[2]

\* the first render memoized the agent of a session, and the second frame
\* lost the agent shown next to one of its panes
C27_PaneAgentLostOnSecondRender ==
  /\ Len(hist) = 2
  /\ hist[1].scrollOffset = hist[2].scrollOffset
  /\ \E i \in DOMAIN hist[1].entries :
       /\ hist[1].entries[i].agentBadge = hist[2].entries[i].agentBadge
       /\ state.agentCache[hist[1].entries[i].name] # "none"
       /\ \E j \in DOMAIN hist[1].entries[i].panes :
            /\ hist[1].entries[i].panes[j] # "none"
            /\ hist[2].entries[i].panes[j] = "none"

----------------------------------------------------------------------------
\* Properties of the two-column layout (checked under SpecTwoColumn)

\* the code units of a cell that are not part of a complete escape sequence
\* are all visible characters: no escape sequence was cut
EscapesIntact(cell) == \A i \in DOMAIN stripAnsi(cell) : stripAnsi(cell)[i] \in {"x", "y", "ellipsis", " "}

\* a cell cut to the width: width - 1 visible characters of the line, then
\* one ellipsis
CutToWidth(line, cell, width) ==
  Len(stripAnsi(line)) > width
    => /\ stripAnsi(cell) = SubSeq(stripAnsi(line), 1, width - 1) \o <<"ellipsis">>
       /\ EscapesIntact(cell)

\* C28: in the two-column layout every output column is cut to its
\* available width counted in visible characters only: a line whose visible
\* length exceeds the width keeps width-1 visible characters followed by one
\* ellipsis, and escape sequences neither count toward the length nor are
\* cut in the middle.
C28_CutByVisibleWidth ==
  hist # <<>>
    => /\ CutToWidth(ps.left, hist[1].left, leftWidthOf(ps.termWidth))
       /\ CutToWidth(ps.right, hist[1].right, rightWidthOf(ps.termWidth))

\* a styled line longer than the column: the cut fell inside the escape
\* sequence and fewer than width - 1 visible characters are left
C28_EscapeCutInTheMiddle ==
  /\ hist # <<>>
  /\ Len(stripAnsi(ps.left)) > leftWidthOf(ps.termWidth)
  /\ ~EscapesIntact(hist[1].left)
  /\ Cardinality({i \in DOMAIN hist[1].left : hist[1].left[i] \in {"x", "y"}})
       < leftWidthOf(ps.termWidth) - 1

----------------------------------------------------------------------------
\* Properties of the S and R keys (checked under SpecCycle)

\* the element n places after x in the round-robin order of seq
Rotated(seq, x, n) ==
  seq[(((CHOOSE i \in DOMAIN seq : seq[i] = x) - 1 + n) % Len(seq)) + 1]

\* C29: pressing S cycles sortBy round-robin none -> name -> created ->
\* activity -> none (four presses restore the starting mode), and pressing R
\* cycles intervalMs round-robin through 1000 -> 2000 -> 5000 -> 10000 ->
\* 1000, so after any R press intervalMs is one of the presets whatever the
\* start-up interval was (an interval that is no preset goes to the first
\* preset).
C29_RoundRobinCycles ==
  /\ state.sortBy = Rotated(<<"none", "name", "created", "activity">>, ps.sortBy, ps.S)
  /\ ps.S = 4 => state.sortBy = ps.sortBy
  /\ ps.R = 0 => state.intervalMs = ps.intervalMs
  /\ ps.R > 0 =>
       /\ state.intervalMs \in {1000, 2000, 5000, 10000}
       /\ state.intervalMs =
            IF ps.intervalMs \in {1000, 2000, 5000, 10000}
            THEN Rotated(<<1000, 2000, 5000, 10000>>, ps.intervalMs, ps.R)
            ELSE Rotated(<<1000, 2000, 5000, 10000>>, 1000, ps.R - 1)

\* four S presses came back to the start-up sort mode, and one R press took
\* a start-up interval that is no preset to a preset
C29_FourPressesAndOddInterval ==
  /\ ps.S = 4
  /\ ps.sortBy = "created"
  /\ state.sortBy = "created"
  /\ ps.intervalMs = 3000
  /\ ps.R = 1
  /\ state.intervalMs = 1000

----------------------------------------------------------------------------
\* Properties of the metadata map (checked under SpecMetaMap)

\* the positions of the entries of session name
PositionsOf(entries, name) == {i \in DOMAIN entries : entries[i].sessionName = name}

\* C30: buildSessionMetaMap returns one entry per distinct sessionName, and
\* for a name occurring several times in the entry sequence the entry kept
\* is the last one in sequence order.
C30_LastEntryPerName ==
  ps.built =>
    /\ DOMAIN ps.map = {ps.entries[i].sessionName : i \in DOMAIN ps.entries}
    /\ \A name \in DOMAIN ps.map :
         \E i \in PositionsOf(ps.entries, name) :
           /\ \A j \in PositionsOf(ps.entries, name) : j <= i
           /\ ps.map[name] = ps.entries[i]

\* a name entered as running and later as done, another name in between:
\* two keys, and the map holds the later entry
C30_DuplicateKeepsLater ==
  /\ ps.built
  /\ Len(ps.entries) = 3
  /\ ps.entries[1].sessionName = "awm-claude-abc" /\ ps.entries[1].status = "running"
  /\ ps.entries[2].sessionName = "awm-codex-def"
  /\ ps.entries[3].sessionName = "awm-claude-abc" /\ ps.entries[3].status = "done"
  /\ Cardinality(DOMAIN ps.map) = 2
  /\ ps.map["awm-claude-abc"].id = 3

----------------------------------------------------------------------------
\* Properties of orchestrate (checked under SpecOrch and SpecOrchFair)

\* this step attempts the launch of task i
Launches(i) == ps'.attempts[i] > ps.attempts[i]

\* the tasks of the plan that dependency id d names
TasksNamed(d) == {j \in DOMAIN ps.plan : ps.plan[j].id = d}

\* C31: a task with dependencies is launched only with --wait and only
\* after every task it depends on has been launched and its session has
\* ended; tasks without dependencies are launched immediately.
C31_DependentAfterDependencies ==
  [][/\ \A i \in Dependent(ps.plan) :
          Launches(i) => /\ ps.waitForDeps
                         /\ \A d \in ps.plan[i].dependencies :
                              /\ TasksNamed(d) \ {i} # {}
                              /\ \A j \in TasksNamed(d) \ {i} : ps.session[j] = "ended"
     /\ \A i \in Independent(ps.plan) : Launches(i) <=> ps.pc = "start"]_vars

\* two independent tasks carry the same id; only the second is in the
\* launched map, so the task depending on that id is launched while the
\* first one's session is still running
C31_LaunchedWhileDependencyRuns ==
  /\ Len(ps.plan) = 3
  /\ ps.plan[1].id = ps.plan[2].id
  /\ ps.plan[1].dependencies = {} /\ ps.plan[2].dependencies = {}
  /\ ps.plan[3].dependencies = {ps.plan[1].id}
  /\ ps.session[1] = "running"
  /\ ps.session[2] = "ended"
  /\ ps.session[3] = "running"

\* the run is over and every dependent task has been launched
AllLaunched ==
  /\ ps.pc = "done"
  /\ ps.waitForDeps => \A i \in Dependent(ps.plan) : ps.attempts[i] >= 1

\* C32: with --wait, provided every launched session eventually ends, every
\* dependent task is eventually launched and the wait loop terminates, for
\* every plan (including plans where a prerequisite failed to launch, names
\* an unknown task id, or dependencies form a cycle).
C32_WaitLoopTerminates == <>AllLaunched

\* the wait loop polls for ever: no session is running, everything launched
\* is completed, a task is pending and none of the pending tasks is ready
C32_WaitsForEver ==
  /\ ps.pc = "wait"
  /\ ps.pending # {}
  /\ \A i \in DOMAIN ps.plan : ps.session[i] # "running"
  /\ ps.completed = CompletedNow(ps)
  /\ \A i \in Dependent(ps.plan) :
       ps.plan[i].id \in ps.pending => ~(ps.plan[i].dependencies \subseteq ps.completed)

\* C40: within one orchestrate run no task is launched more than once: a
\* task leaves the pending set before its launch is attempted and is never
\* re-added, whether the launch succeeds or fails.
C40_LaunchedAtMostOnce ==
  /\ \A i \in DOMAIN ps.plan : ps.attempts[i] <= 1
  /\ \A i \in Dependent(ps.plan) : ps.attempts[i] = 1 => ps.plan[i].id \notin ps.pending

\* a dependent task whose launch failed stays out of the pending set while
\* the loop goes on waiting for another task
C40_FailedLaunchNotRetried ==
  /\ ps.pc = "wait"
  /\ \E i \in Dependent(ps.plan) :
       /\ ps.session[i] = "failed"
       /\ ps.attempts[i] = 1
       /\ ps.plan[i].id \notin ps.pending

----------------------------------------------------------------------------
\* Properties of markSessionDone (checked under SpecDone)

\* the call renamed the session and appended one done entry for the new name
MarkedDone ==
  \E newName \in ps.sessions \ ps.before.sessions :
    /\ startsWith(newName, ps.target \o <<"done">>)
    /\ ps.sessions = (ps.before.sessions \ {ps.target}) \cup {newName}
    /\ Len(ps.entries) = Len(ps.before.entries) + 1
    /\ SubSeq(ps.entries, 1, Len(ps.before.entries)) = ps.before.entries
    /\ ps.entries[Len(ps.entries)].sessionName = newName
    /\ ps.entries[Len(ps.entries)].status = "done"

\* the call changed nothing
MarkedNothing ==
  /\ ps.sessions = ps.before.sessions
  /\ ps.entries = ps.before.entries

\* no session disappeared
NeverKilled == Cardinality(ps.sessions) = Cardinality(ps.before.sessions)

\* a name that already ends in -done is not renamed again
DoneNotRenamed == endsWithDone(ps.target) => ps.sessions = ps.before.sessions

\* C33: markSessionDone is all-or-nothing: after it returns or throws, either
\* the session has been renamed to a name that starts with '<old name>-done'
\* and exactly one done metadata entry for the new name has been appended, or
\* the session keeps its old name and no entry has been appended. The session
\* is never killed. A session whose name already ends in -done is not renamed
\* again.
C33_MarkDoneAllOrNothing ==
  ps.outcome # "none" =>
    /\ MarkedDone \/ MarkedNothing
    /\ NeverKilled
    /\ DoneNotRenamed

\* the rename went through and the append to the metadata file threw
C33_RenamedWithoutEntry ==
  /\ ps.outcome = "thrown"
  /\ ps.target \in ps.before.sessions
  /\ ps.target \notin ps.sessions
  /\ ps.entries = ps.before.entries

----------------------------------------------------------------------------
\* Properties of the keys that act on a session (checked under SpecActs)

\* this step is a kill, attach or mark-done key taking its session
ActsOnSession == \E h \in pending' : h \notin pending

\* C34: when a kill, attach or mark-done key is handled, the session acted on
\* is the one shown as selected in the most recently written frame:
\* state.visibleSessions at that moment equals the list that frame was
\* rendered from, for every interleaving with an in-flight refresh.
C34_ActsOnShownList ==
  [][(ActsOnSession /\ frame.kind # "none")
       => state.visibleSessions = frame.sessions]_vars

\* a kill was taken for a session other than the one the frame on screen
\* marks, while a refresh has replaced the list and not yet written its frame
C34_KilledUnseenSelection ==
  /\ loopPc \in {"meta", "gather"}
  /\ frame.kind = "panels"
  /\ state.visibleSessions # frame.sessions
  /\ frame.selectedIndex + 1 \in DOMAIN frame.sessions
  /\ \E h \in pending : /\ h.kind = "kill"
                        /\ h.session # frame.sessions[frame.selectedIndex + 1]
                        /\ h.session \notin SeqRange(frame.sessions)

----------------------------------------------------------------------------
\* Properties of the events panel (checked under SpecPanel)

\* C35: while the event detail view is open, the event it displays stays the
\* same entry across re-renders, even when new events are appended to the
\* buffer.
C35_DetailShowsOpenedEvent ==
  state.showHookDetail => DetailHook(state, hooksBuffer) = ps.opened

\* the detail view is open on one event and an event posted since has taken
\* its place
C35_DetailMovedToNewerEvent ==
  /\ state.showHookDetail
  /\ ps.opened # 0
  /\ DetailHook(state, hooksBuffer) > ps.opened

\* C36: when the events panel is focused and the buffer is non-empty,
\* selectedHookIndex designates a row the events panel actually renders (it
\* is below both the buffer length and the number of displayed rows), after
\* any sequence of navigation keys and event arrivals.
C36_SelectedHookRendered ==
  (state.focusPanel = "hooks" /\ Len(hooksBuffer) > 0)
    => /\ state.selectedHookIndex < Len(hooksBuffer)
       /\ state.selectedHookIndex + 1 \in DOMAIN HookRows(hooksBuffer)

\* the selection went past the last displayed row of a longer buffer
C36_SelectionBelowPanel ==
  /\ state.focusPanel = "hooks"
  /\ state.selectedHookIndex = HOOK_ROWS
  /\ Len(hooksBuffer) > HOOK_ROWS

\* C38: focusPanel is hooks only while the hooks panel is shown and the hooks
\* server is enabled; hiding the panel returns focus to sessions.
C38_HooksFocusNeedsPanel ==
  state.focusPanel = "hooks" => (state.showHooks /\ state.hooksEnabled)

\* the panel was hidden again after the focus had been on it
C38_PanelHiddenFocusBack ==
  /\ ~state.showHooks
  /\ state.hooksEnabled
  /\ state.focusPanel = "sessions"
  /\ state.selectedHookIndex > 0

----------------------------------------------------------------------------
\* Properties of the template editor (checked under SpecTemplate)

\* C37: leaving the template editor with Escape or q cancels: titleTemplate
\* and messageTemplate are the same as when it was opened, whatever keys
\* (typing, Tab, Ctrl+R) were pressed in between; only Enter saves.
C37_EscapeCancelsEdits ==
  (~state.showTemplateEditor /\ ps.closedBy \in {"esc", "q"})
    => EffectiveTemplates(state) = ps.atOpen

\* the editor was left with Escape and the title carries the typed character
C37_EscapeKeptTypedTitle ==
  /\ ~state.showTemplateEditor
  /\ ps.closedBy = "esc"
  /\ ps.atOpen.title = DEFAULT_TITLE_TEMPLATE
  /\ Len(state.titleTemplate) = Len(DEFAULT_TITLE_TEMPLATE) + 1

----------------------------------------------------------------------------
\* Properties of the scrolling views (checked under SpecViews)

\* C39: the scroll offsets of the detailed-help and event-detail views stay
\* within [0, max(0, contentLines - viewportLines)] after any sequence of
\* scroll keys, so one scroll-up always moves the view up by one line unless
\* it is already at the top.
C39_ScrollOffsetsWithinContent ==
  /\ state.detailedHelpScrollOffset \in 0..helpMaxOffset(ps.termHeight)
  /\ state.hookScrollOffset \in 0..hookMaxOffset(ps.termHeight, ps.payloadLines)

\* the event detail is scrolled down, and the stored offset is so far past
\* the end that one scroll-up leaves the view where it is
C39_ScrollUpMovesNothing ==
  /\ state.showHookDetail
  /\ hookShownOffset(state, ps.termHeight, ps.payloadLines) > 0
  /\ hookShownOffset([state EXCEPT !.hookScrollOffset = Max(0, @ - 1)],
                     ps.termHeight, ps.payloadLines)
       = hookShownOffset(state, ps.termHeight, ps.payloadLines)

====
